---- MODULE Spec2Model ----
(***************************************************************************)
(* SvgToVectorCompose: the path-data parser, the code emitter with routine *)
(* splitting, and the SVG element extraction, as state machines.           *)
(*                                                                         *)
(* Text is a sequence of lexical atoms [k, n]: a decimal literal           *)
(* (k = "num", n = its magnitude in thousandths), a sign, a blank, a       *)
(* comma, a path command letter, or a character that is none of these      *)
(* (k = "x").  Numbers are integers counting thousandths.                  *)
(***************************************************************************)
EXTENDS Integers, Sequences, FiniteSets, TLC

VARIABLES
    \* _parse_path_commands, one loop iteration per step
    pc, segs, path_data, tokens, i, current_x, current_y, commands,
    \* _commands_to_path_string followed by a second parse
    path_string, reparsed,
    \* _format_path_data on the same text
    lines,
    \* one conversion: the SVG document, parse_svg_file, generate_vector_drawable
    gpc, root, svg_data, kotlin_code,
    \* one call of _apply_group_opacity_to_path
    opc, child_path, applied_opacity, modified_path,
    \* one call of convert_to_pascal_case
    npc, stem, icon_name,
    \* one icon pack: list_output_files, _generate_iconpack_content
    ppc, output_files, icon_data, resolved_icons,
    \* runs of main() over one input and one output directory: convert_all,
    \* one loop iteration per step, then generate_iconpack_file
    bpc, input_dir, output_dir, dry_run, clean_output, svg_files, report,
    iconpack_content, runs,
    \* two conversions through one SVGParser, their steps interleaved
    tpc, tree_root, parser_current_root, parsed_data, generated_code,
    \* reads of the accessors of generated units: the backing field of each,
    \* the calls of build(), the read in progress, the values returned
    backing, builds, reader, returned

parseVars == <<pc, segs, path_data, tokens, i, current_x, current_y, commands,
               path_string, reparsed, lines>>

genVars == <<gpc, root, svg_data, kotlin_code>>

opacityVars == <<opc, child_path, applied_opacity, modified_path>>

nameVars == <<npc, stem, icon_name>>

packVars == <<ppc, output_files, icon_data, resolved_icons>>

batchVars == <<bpc, input_dir, output_dir, dry_run, clean_output, svg_files, report,
               iconpack_content, runs>>

sharedVars == <<tpc, tree_root, parser_current_root, parsed_data, generated_code>>

accessVars == <<backing, builds, reader, returned>>

restVars == <<batchVars, sharedVars, accessVars>>

auxVars == <<opacityVars, nameVars, packVars, restVars>>

vars == <<parseVars, genVars, auxVars>>

-----------------------------------------------------------------------------
(* Bounds *)

MaxSegs == 3
MaxElems == 2
MaxDepth == 2
Fanout == 12
Levels == 2

\* the elements of a styled document
MaxStyled == 3

\* the characters of a file stem
MaxNameLen == 4

\* the generated files of an output directory
MaxIcons == 3

\* SVG files in the input directory, runs of main()
MaxInputs == 3
MaxRuns == 2

\* reads of one accessor
MaxReads == 3

-----------------------------------------------------------------------------
(* Text *)

Atom(k, n) == [k |-> k, n |-> n]
SP == Atom(" ", 0)
COMMA == Atom(",", 0)
PLUS == Atom("+", 0)
MINUS == Atom("-", 0)
JUNK == Atom("x", 0)
Num(n) == Atom("num", n)
Ch(c) == Atom(c, 0)

IsSign(a) == a.k \in {"+", "-"}
IsNum(a) == a.k = "num"

\* [MmLlHhVvCcSsQqTtAaZz]
CommandLetters ==
    {"M", "m", "L", "l", "H", "h", "V", "v", "C", "c",
     "S", "s", "Q", "q", "T", "t", "A", "a", "Z", "z"}

IsCommandLetter(a) == a.k \in CommandLetters

RECURSIVE FlattenRange(_, _, _)
FlattenRange(ss, lo, hi) ==
    IF lo > hi THEN <<>>
    ELSE IF lo = hi THEN ss[lo]
    ELSE LET mid == (lo + hi) \div 2
         IN  FlattenRange(ss, lo, mid) \o FlattenRange(ss, mid + 1, hi)

\* ''.join(pieces)
Flatten(ss) == FlattenRange(ss, 1, Len(ss))

\* a sequence given as a function on 1..n, as a tuple
AsTuple(f) == SubSeq(f, 1, Len(f))

\* the places 1..n
Places(n) == [p \in 1..n |-> p]

\* the characters of s at the places sel, in order
Pick(s, sel) == AsTuple([q \in 1..Len(sel) |-> s[sel[q]]])

\* no character
DROP == Atom("", 0)

\* up to three characters for each one of a text, DROP standing for none,
\* as the text they make
Undrop(wide) == SelectSeq(wide, LAMBDA a : a # DROP)

\* the first and the last place of s that holds no blank (Len(s) + 1 and 0
\* when there is none)
RECURSIVE FirstSolid(_, _)
FirstSolid(s, p) == IF p > Len(s) \/ s[p] # SP THEN p ELSE FirstSolid(s, p + 1)

RECURSIVE LastSolid(_, _)
LastSolid(s, p) == IF p < 1 \/ s[p] # SP THEN p ELSE LastSolid(s, p - 1)

\* s.strip()
Strip(s) ==
    LET first == FirstSolid(s, 1)
    IN  IF first > Len(s) THEN <<>> ELSE SubSeq(s, first, LastSolid(s, Len(s)))

\* re.sub(r'\s+', ' ', s.strip())
CollapseWhitespace(s) ==
    LET t == Strip(s)
    IN  Pick(t, SelectSeq(Places(Len(t)), LAMBDA p : ~(t[p] = SP /\ t[p - 1] = SP)))

\* re.sub(r',', ' ', s)
CommasToSpaces(s) == AsTuple([p \in 1..Len(s) |-> IF s[p] = COMMA THEN SP ELSE s[p]])

\* Whether the sign at p starts group 2 of a match of
\* ([+-]?\d*\.?\d+)([+-]\d*\.?\d+): a literal on both sides, and the literal on
\* the left not already consumed as group 2 of the match before (re.sub
\* replaces non-overlapping matches, leftmost first).
RECURSIVE SplitsAt(_, _)
SplitsAt(s, p) ==
    /\ 1 < p /\ p < Len(s)
    /\ IsSign(s[p]) /\ IsNum(s[p - 1]) /\ IsNum(s[p + 1])
    /\ ~SplitsAt(s, p - 2)

\* re.sub(r'([+-]?\d*\.?\d+)([+-]\d*\.?\d+)', r'\1 \2', s)
SplitSignedNumbers(s) ==
    Undrop(AsTuple([q \in 1..3 * Len(s) |->
        LET p == (q + 2) \div 3
            j == ((q + 2) % 3) + 1
        IN  IF j = 2 THEN s[p]
            ELSE IF j = 1 /\ SplitsAt(s, p) THEN SP ELSE DROP]))

\* re.sub(r'([MmLlHhVvCcSsQqTtAaZz])', r' \1 ', s)
SpaceCommands(s) ==
    Undrop(AsTuple([q \in 1..3 * Len(s) |->
        LET p == (q + 2) \div 3
            j == ((q + 2) % 3) + 1
        IN  IF j = 2 THEN s[p]
            ELSE IF IsCommandLetter(s[p]) THEN SP ELSE DROP]))

RECURSIVE TokenEnd(_, _)
TokenEnd(s, p) == IF p = Len(s) \/ s[p + 1] = SP THEN p ELSE TokenEnd(s, p + 1)

\* s.split()
Split(s) ==
    LET starts == SelectSeq(Places(Len(s)),
                            LAMBDA p : s[p] # SP /\ (p = 1 \/ s[p - 1] = SP))
    IN  AsTuple([q \in 1..Len(starts) |-> SubSeq(s, starts[q], TokenEnd(s, starts[q]))])

Tokenize(text) ==
    Split(CollapseWhitespace(SpaceCommands(SplitSignedNumbers(
        CommasToSpaces(CollapseWhitespace(text))))))

\* float(token) succeeds
IsFloat(tok) ==
    \/ Len(tok) = 1 /\ IsNum(tok[1])
    \/ Len(tok) = 2 /\ IsSign(tok[1]) /\ IsNum(tok[2])

\* float(token)
Float(tok) ==
    IF Len(tok) = 1 THEN tok[1].n
    ELSE IF tok[1] = MINUS THEN 0 - tok[2].n ELSE tok[2].n

\* token.upper()
Upper(tok) ==
    IF Len(tok) = 1 /\ IsCommandLetter(tok[1])
    THEN CASE tok[1].k \in {"M", "m"} -> "M"
           [] tok[1].k \in {"L", "l"} -> "L"
           [] tok[1].k \in {"H", "h"} -> "H"
           [] tok[1].k \in {"V", "v"} -> "V"
           [] tok[1].k \in {"C", "c"} -> "C"
           [] tok[1].k \in {"S", "s"} -> "S"
           [] tok[1].k \in {"Q", "q"} -> "Q"
           [] tok[1].k \in {"T", "t"} -> "T"
           [] tok[1].k \in {"A", "a"} -> "A"
           [] OTHER -> "Z"
    ELSE "other"

\* token.islower(), for the tokens whose letter the parser looks at
IsLower(tok) ==
    Len(tok) = 1 /\ tok[1].k \in {"m", "l", "h", "v", "c", "s", "q", "t", "a", "z"}

-----------------------------------------------------------------------------
(* ComposeGenerator._parse_path_commands *)

\* tokens[j], Python's index from 0
Tok(toks, j) == toks[j + 1]

ParseM(toks, st, is_relative) ==
    IF st.i + 1 < Len(toks)
    THEN IF IsFloat(Tok(toks, st.i)) /\ IsFloat(Tok(toks, st.i + 1))
         THEN LET x == Float(Tok(toks, st.i)) + (IF is_relative THEN st.current_x ELSE 0)
                  y == Float(Tok(toks, st.i + 1)) + (IF is_relative THEN st.current_y ELSE 0)
              IN  [i |-> st.i + 2, current_x |-> x, current_y |-> y,
                   commands |-> Append(st.commands, [type |-> "M", x |-> x, y |-> y])]
         ELSE [st EXCEPT !.i = @ + 2]
    ELSE st

ParseL(toks, st, is_relative) ==
    IF st.i + 1 < Len(toks)
    THEN IF IsFloat(Tok(toks, st.i)) /\ IsFloat(Tok(toks, st.i + 1))
         THEN LET x == Float(Tok(toks, st.i)) + (IF is_relative THEN st.current_x ELSE 0)
                  y == Float(Tok(toks, st.i + 1)) + (IF is_relative THEN st.current_y ELSE 0)
              IN  [i |-> st.i + 2, current_x |-> x, current_y |-> y,
                   commands |-> Append(st.commands, [type |-> "L", x |-> x, y |-> y])]
         ELSE [st EXCEPT !.i = @ + 2]
    ELSE st

ParseH(toks, st, is_relative) ==
    IF st.i < Len(toks)
    THEN IF IsFloat(Tok(toks, st.i))
         THEN LET x == Float(Tok(toks, st.i))
              IN  [i |-> st.i + 1,
                   current_x |-> IF is_relative THEN st.current_x + x ELSE x,
                   current_y |-> st.current_y,
                   commands |-> Append(st.commands,
                                       [type |-> "H", x |-> x, relative |-> is_relative])]
         ELSE [st EXCEPT !.i = @ + 1]
    ELSE st

ParseV(toks, st, is_relative) ==
    IF st.i < Len(toks)
    THEN IF IsFloat(Tok(toks, st.i))
         THEN LET y == Float(Tok(toks, st.i))
              IN  [i |-> st.i + 1,
                   current_x |-> st.current_x,
                   current_y |-> IF is_relative THEN st.current_y + y ELSE y,
                   commands |-> Append(st.commands,
                                       [type |-> "V", y |-> y, relative |-> is_relative])]
         ELSE [st EXCEPT !.i = @ + 1]
    ELSE st

ParseC(toks, st, is_relative) ==
    IF st.i + 5 < Len(toks)
    THEN IF \A j \in 0..5 : IsFloat(Tok(toks, st.i + j))
         THEN LET dx == IF is_relative THEN st.current_x ELSE 0
                  dy == IF is_relative THEN st.current_y ELSE 0
                  x1 == Float(Tok(toks, st.i)) + dx
                  y1 == Float(Tok(toks, st.i + 1)) + dy
                  x2 == Float(Tok(toks, st.i + 2)) + dx
                  y2 == Float(Tok(toks, st.i + 3)) + dy
                  x  == Float(Tok(toks, st.i + 4)) + dx
                  y  == Float(Tok(toks, st.i + 5)) + dy
              IN  [i |-> st.i + 6, current_x |-> x, current_y |-> y,
                   commands |-> Append(st.commands,
                                       [type |-> "C", x1 |-> x1, y1 |-> y1,
                                        x2 |-> x2, y2 |-> y2, x |-> x, y |-> y])]
         ELSE [st EXCEPT !.i = @ + 6]
    ELSE st

ParseZ(toks, st) == [st EXCEPT !.commands = Append(@, [type |-> "Z"])]

\* the else branch: "Skip unknown commands"
ParseSkip(toks, st) == [st EXCEPT !.i = @ + 1]

\* one iteration of `while i < len(tokens)`
ParseStep(toks, st0) ==
    LET cmd == Upper(Tok(toks, st0.i))
        is_relative == IsLower(Tok(toks, st0.i))
        st == [st0 EXCEPT !.i = @ + 1]
    IN  CASE cmd = "M" -> ParseM(toks, st, is_relative)
          [] cmd = "L" -> ParseL(toks, st, is_relative)
          [] cmd = "H" -> ParseH(toks, st, is_relative)
          [] cmd = "V" -> ParseV(toks, st, is_relative)
          [] cmd = "C" -> ParseC(toks, st, is_relative)
          [] cmd = "Z" -> ParseZ(toks, st)
          [] OTHER -> ParseSkip(toks, st)

\* The while loop, run in nested blocks of Fanout iterations so that the
\* evaluation depth stays small on paths of several hundred commands.
RECURSIVE WhileLoop(_, _, _, _)
WhileLoop(toks, st, level, k) ==
    IF k = 0 \/ ~(st.i < Len(toks)) THEN st
    ELSE WhileLoop(toks,
                   IF level = 0 THEN ParseStep(toks, st)
                   ELSE WhileLoop(toks, st, level - 1, Fanout),
                   level, k - 1)

ParseStart == [i |-> 0, current_x |-> 0, current_y |-> 0, commands |-> <<>>]

ParsePathCommands(text) ==
    WhileLoop(Tokenize(text), ParseStart, Levels, Fanout).commands

-----------------------------------------------------------------------------
(* Number formatting *)

\* v rounded to a multiple of unit, ties to the even multiple (what
\* f"{v:.Nf}" prints when v is exactly the decimal it stands for)
RoundHalfEven(v, unit) ==
    LET q == v \div unit
        r == v % unit
    IN  IF 2 * r < unit THEN q * unit
        ELSE IF 2 * r > unit THEN (q + 1) * unit
        ELSE IF q % 2 = 0 THEN q * unit ELSE (q + 1) * unit

\* the number f"{v:.2f}" prints
Fmt2(v) == RoundHalfEven(v, 10)

\* the number f"{v:.0f}" prints
Fmt0(v) == RoundHalfEven(v, 1000)

\* the characters of a printed number
Lit(v) == IF v < 0 THEN <<MINUS, Num(0 - v)>> ELSE <<Num(v)>>

-----------------------------------------------------------------------------
(* ComposeGenerator._commands_to_path_string *)

\* ' '.join(parts)
JoinWithSpace(parts) ==
    Flatten([p \in 1..Len(parts) |-> IF p = 1 THEN parts[p] ELSE <<SP>> \o parts[p]])

CommandToPathPart(command) ==
    CASE command.type = "M" ->
           <<Ch("M"), SP>> \o Lit(Fmt2(command.x)) \o <<COMMA>> \o Lit(Fmt2(command.y))
      [] command.type = "L" ->
           <<Ch("L"), SP>> \o Lit(Fmt2(command.x)) \o <<COMMA>> \o Lit(Fmt2(command.y))
      [] command.type = "H" -> <<Ch("H"), SP>> \o Lit(Fmt2(command.x))
      [] command.type = "V" -> <<Ch("V"), SP>> \o Lit(Fmt2(command.y))
      [] command.type = "C" ->
           <<Ch("C"), SP>> \o Lit(Fmt2(command.x1)) \o <<COMMA>> \o Lit(Fmt2(command.y1))
             \o <<SP>> \o Lit(Fmt2(command.x2)) \o <<COMMA>> \o Lit(Fmt2(command.y2))
             \o <<SP>> \o Lit(Fmt2(command.x)) \o <<COMMA>> \o Lit(Fmt2(command.y))
      [] command.type = "Z" -> <<Ch("Z")>>

CommandsToPathString(cmds) ==
    JoinWithSpace([p \in 1..Len(cmds) |-> CommandToPathPart(cmds[p])])

-----------------------------------------------------------------------------
(* Colours: a colour is the sequence of its characters *)

LowerCase == <<"a", "b", "c", "d", "e", "f", "g", "h", "i", "j", "k", "l", "m",
               "n", "o", "p", "q", "r", "s", "t", "u", "v", "w", "x", "y", "z">>
UpperCase == <<"A", "B", "C", "D", "E", "F", "G", "H", "I", "J", "K", "L", "M",
               "N", "O", "P", "Q", "R", "S", "T", "U", "V", "W", "X", "Y", "Z">>

IndexIn(alphabet, c) ==
    IF \E p \in 1..Len(alphabet) : alphabet[p] = c
    THEN CHOOSE p \in 1..Len(alphabet) : alphabet[p] = c
    ELSE 0

\* str.lower()
StrLower(str) ==
    [p \in 1..Len(str) |->
        IF IndexIn(UpperCase, str[p]) > 0 THEN LowerCase[IndexIn(UpperCase, str[p])]
        ELSE str[p]]

\* str.upper()
StrUpper(str) ==
    [p \in 1..Len(str) |->
        IF IndexIn(LowerCase, str[p]) > 0 THEN UpperCase[IndexIn(LowerCase, str[p])]
        ELSE str[p]]

NONE == <<"n", "o", "n", "e">>
BLACK == <<"b", "l", "a", "c", "k">>
WHITE == <<"w", "h", "i", "t", "e">>
RED == <<"r", "e", "d">>
GREEN == <<"g", "r", "e", "e", "n">>
BLUE == <<"b", "l", "u", "e">>
TRANSPARENT == <<"t", "r", "a", "n", "s", "p", "a", "r", "e", "n", "t">>

Hex(str) == <<"#">> \o str

\* named_colors of PathData._normalize_color
NamedColors ==
    { <<BLACK, Hex(<<"0", "0", "0", "0", "0", "0">>)>>,
      <<WHITE, Hex(<<"f", "f", "f", "f", "f", "f">>)>>,
      <<RED, Hex(<<"f", "f", "0", "0", "0", "0">>)>>,
      <<GREEN, Hex(<<"0", "0", "8", "0", "0", "0">>)>>,
      <<BLUE, Hex(<<"0", "0", "0", "0", "f", "f">>)>>,
      <<TRANSPARENT, NONE>> }

\* str[a-1:b], clipped to the string as Python clips a slice
Slice(str, a, b) ==
    LET e == IF b < Len(str) THEN b ELSE Len(str)
    IN  IF a > e THEN <<>> ELSE SubSeq(str, a, e)

IsDigit(c) == c \in {"0", "1", "2", "3", "4", "5", "6", "7", "8", "9"}

DigitValue(c) ==
    CASE c = "0" -> 0 [] c = "1" -> 1 [] c = "2" -> 2 [] c = "3" -> 3 [] c = "4" -> 4
      [] c = "5" -> 5 [] c = "6" -> 6 [] c = "7" -> 7 [] c = "8" -> 8 [] c = "9" -> 9

HexDigits == <<"0", "1", "2", "3", "4", "5", "6", "7",
               "8", "9", "A", "B", "C", "D", "E", "F">>

\* format(n, 'X')
RECURSIVE HexOf(_)
HexOf(n) == IF n < 16 THEN <<HexDigits[n + 1]>> ELSE HexOf(n \div 16) \o <<HexDigits[(n % 16) + 1]>>

\* format(n, '02X')
Hex02(n) == IF n < 16 THEN <<"0">> \o HexOf(n) ELSE HexOf(n)

\* the end of the run of digits that starts at p (p - 1 when there is none)
RECURSIVE DigitsEnd(_, _)
DigitsEnd(str, p) ==
    IF p <= Len(str) /\ IsDigit(str[p]) THEN DigitsEnd(str, p + 1) ELSE p - 1

RECURSIVE SkipBlanks(_, _)
SkipBlanks(str, p) ==
    IF p <= Len(str) /\ str[p] = " " THEN SkipBlanks(str, p + 1) ELSE p

\* int(digits)
RECURSIVE IntOf(_)
IntOf(ds) ==
    IF ds = <<>> THEN 0 ELSE 10 * IntOf(Slice(ds, 1, Len(ds) - 1)) + DigitValue(ds[Len(ds)])

At(str, p) == IF p <= Len(str) THEN str[p] ELSE ""

\* re.match(r'rgba?\((\d+),\s*(\d+),\s*(\d+)(?:,\s*[\d.]+)?\)', color):
\* <<>> when there is no match, else <<r, g, b>>
RgbMatch(color) ==
    LET p0 == IF Slice(color, 1, 4) = <<"r", "g", "b", "a">> THEN 5 ELSE 4
        r1 == p0 + 1
        r2 == DigitsEnd(color, r1)
        g1 == SkipBlanks(color, r2 + 2)
        g2 == DigitsEnd(color, g1)
        b1 == SkipBlanks(color, g2 + 2)
        b2 == DigitsEnd(color, b1)
        a1 == SkipBlanks(color, b2 + 2)
        RECURSIVE AlphaEnd(_)
        AlphaEnd(p) == IF IsDigit(At(color, p)) \/ At(color, p) = "." THEN AlphaEnd(p + 1)
                       ELSE p - 1
        a2 == AlphaEnd(a1)
        closed == \/ At(color, b2 + 1) = ")"
                  \/ At(color, b2 + 1) = "," /\ a2 >= a1 /\ At(color, a2 + 1) = ")"
    IN  IF /\ Len(color) >= 4
           /\ Slice(color, 1, 3) = <<"r", "g", "b">>
           /\ At(color, p0) = "("
           /\ r2 >= r1 /\ At(color, r2 + 1) = ","
           /\ g2 >= g1 /\ At(color, g2 + 1) = ","
           /\ b2 >= b1 /\ closed
        THEN <<IntOf(Slice(color, r1, r2)), IntOf(Slice(color, g1, g2)),
               IntOf(Slice(color, b1, b2))>>
        ELSE <<>>

\* PathData._normalize_color
NormalizeColor(color) ==
    IF color = <<>> \/ StrLower(color) = NONE THEN NONE
    ELSE IF \E e \in NamedColors : e[1] = StrLower(color)
         THEN (CHOOSE e \in NamedColors : e[1] = StrLower(color))[2]
    ELSE IF color[1] = "#" THEN StrUpper(color)
    ELSE IF RgbMatch(color) # <<>>
         THEN LET m == RgbMatch(color) IN <<"#">> \o Hex02(m[1]) \o Hex02(m[2]) \o Hex02(m[3])
    ELSE color

\* ComposeGenerator._convert_color_to_compose: <<>> for None, else one
\* expression; prefix is the text before the hex digits or the whole name
ColorExpr(prefix, hex) == [prefix |-> prefix, hex |-> hex, copy_alpha |-> <<>>]

ConvertColorToCompose(color) ==
    IF color = <<>> \/ StrLower(color) = NONE THEN <<>>
    ELSE IF color[1] = "#" /\ Len(color) = 7
         THEN <<ColorExpr("Color(0xFF", StrUpper(Slice(color, 2, 7)))>>
    ELSE IF color[1] = "#" /\ Len(color) = 4
         THEN <<ColorExpr("Color(0xFF",
                          <<color[2], color[2], color[3], color[3], color[4], color[4]>>)>>
    ELSE IF StrLower(color) = BLACK THEN <<ColorExpr("Color.Black", <<>>)>>
    ELSE IF StrLower(color) = WHITE THEN <<ColorExpr("Color.White", <<>>)>>
    ELSE IF StrLower(color) = RED THEN <<ColorExpr("Color.Red", <<>>)>>
    ELSE IF StrLower(color) = GREEN THEN <<ColorExpr("Color.Green", <<>>)>>
    ELSE IF StrLower(color) = BLUE THEN <<ColorExpr("Color.Blue", <<>>)>>
    ELSE IF StrLower(color) = TRANSPARENT THEN <<ColorExpr("Color.Transparent", <<>>)>>
    ELSE <<ColorExpr("Color.Black", <<>>)>>

\* ComposeGenerator._convert_color_to_compose_with_opacity; opacity in thousandths
ConvertColorToComposeWithOpacity(color, opacity) ==
    IF color = <<>> \/ StrLower(color) = NONE THEN <<>>
    ELSE LET base_color == ConvertColorToCompose(color)
         IN  IF base_color = <<>> THEN <<>>
             ELSE IF opacity >= 1000 THEN base_color
             ELSE IF base_color[1].prefix = "Color(0xFF"
                  THEN <<[prefix |-> "Color(0x",
                          hex |-> Hex02((opacity * 255) \div 1000) \o base_color[1].hex,
                          copy_alpha |-> <<>>]>>
             ELSE <<[base_color[1] EXCEPT !.copy_alpha = <<Fmt2(opacity)>>]>>

-----------------------------------------------------------------------------
(* svg_parser.PathData and GroupData.  An attribute that may be missing from *)
(* an object (fill_opacity, stroke_opacity) is <<>> or <<value>>.  Opacity   *)
(* and stroke width count thousandths.                                       *)

\* PathData(...) with __post_init__
PathData(d, fill, stroke, stroke_width, fill_rule, opacity, transform) ==
    [d |-> d,
     fill |-> NormalizeColor(fill),
     stroke |-> NormalizeColor(stroke),
     stroke_width |-> stroke_width,
     fill_rule |-> fill_rule,
     opacity |-> opacity,
     transform |-> transform,
     fill_opacity |-> <<>>,
     stroke_opacity |-> <<>>]

\* GroupData(...)
GroupData(transform, opacity, fill, stroke, children) ==
    [transform |-> transform, opacity |-> opacity, fill |-> fill, stroke |-> stroke,
     children |-> children]

\* getattr(obj, name, default)
GetAttr(field, default) == IF field = <<>> THEN default ELSE field[1]

-----------------------------------------------------------------------------
(* ComposeGenerator: the emitter.  Generated text is kept as its structure: *)
(* an instruction is [op, args, digits] (digits: the fractional digits     *)
(* printed), a block is a path block, a group block or a call of a helper.  *)

Instr(op, args, digits) == [op |-> op, args |-> args, digits |-> digits]

\* one line of _format_path_data
FormatCommand(command) ==
    CASE command.type = "M" ->
           Instr("moveTo", <<Fmt0(command.x), Fmt0(command.y)>>, 0)
      [] command.type = "L" ->
           Instr("lineTo", <<Fmt0(command.x), Fmt0(command.y)>>, 0)
      [] command.type = "H" ->
           IF command.relative
           THEN Instr("horizontalLineToRelative", <<Fmt0(command.x)>>, 0)
           ELSE Instr("horizontalLineTo", <<Fmt0(command.x)>>, 0)
      [] command.type = "V" ->
           IF command.relative
           THEN Instr("verticalLineToRelative", <<Fmt0(command.y)>>, 0)
           ELSE Instr("verticalLineTo", <<Fmt0(command.y)>>, 0)
      [] command.type = "C" ->
           Instr("curveTo", <<Fmt2(command.x1), Fmt2(command.y1), Fmt2(command.x2),
                              Fmt2(command.y2), Fmt2(command.x), Fmt2(command.y)>>, 2)
      [] command.type = "S" ->
           Instr("reflectiveCurveTo", <<Fmt2(command.x2), Fmt2(command.y2),
                                        Fmt2(command.x), Fmt2(command.y)>>, 2)
      [] command.type = "Q" ->
           Instr("quadTo", <<Fmt2(command.x1), Fmt2(command.y1),
                             Fmt2(command.x), Fmt2(command.y)>>, 2)
      [] command.type = "T" ->
           Instr("reflectiveQuadTo", <<Fmt2(command.x), Fmt2(command.y)>>, 2)
      [] command.type = "A" ->
           Instr("arcTo", <<Fmt2(command.rx), Fmt2(command.ry), Fmt2(command.rotation),
                            command.large_arc, command.sweep,
                            Fmt2(command.x), Fmt2(command.y)>>, 2)
      [] command.type = "Z" -> Instr("close", <<>>, 0)

\* ComposeGenerator._format_path_data
FormatPathData(d) ==
    LET cmds == ParsePathCommands(d)
    IN  AsTuple([p \in 1..Len(cmds) |-> FormatCommand(cmds[p])])

Param(name, color, num) == [name |-> name, color |-> color, num |-> num]

\* f"{v:.1f}"
Fmt1(v) == RoundHalfEven(v, 100)

NONZERO == <<"n", "o", "n", "z", "e", "r", "o">>
EVENODD == <<"e", "v", "e", "n", "o", "d", "d">>

\* str.lower() of a fill-rule value
FillRuleLower(rule) == StrLower(rule)

\* path_params as generate_path_code and _generate_path_helper_method build it
PathParams(path) ==
    LET fill_opacity == GetAttr(path.fill_opacity, 1000)
        stroke_opacity == GetAttr(path.stroke_opacity, 1000)
        fill_color == ConvertColorToComposeWithOpacity(path.fill, fill_opacity)
        stroke_color == IF path.stroke # NONE
                        THEN ConvertColorToComposeWithOpacity(path.stroke, stroke_opacity)
                        ELSE <<>>
    IN  (IF path.fill # NONE /\ fill_color # <<>>
         THEN <<Param("fill", fill_color, 0)>> ELSE <<>>)
        \o
        (IF FillRuleLower(path.fill_rule) = EVENODD
         THEN <<Param("pathFillType", <<>>, 0)>> ELSE <<>>)
        \o
        (IF stroke_color # <<>> /\ path.stroke # NONE
         THEN <<Param("stroke", stroke_color, 0)>>
              \o (IF path.stroke_width > 0
                  THEN <<Param("strokeLineWidth", <<>>, Fmt1(path.stroke_width))>>
                  ELSE <<>>)
         ELSE <<>>)

Block(kind, name, params, body, children) ==
    [kind |-> kind, name |-> name, params |-> params, body |-> body, children |-> children]

\* ComposeGenerator.generate_path_code: <<>> for "", else the one path block
GeneratePathCode(path) ==
    IF path.d = <<>> THEN <<>>
    ELSE <<Block("path", 0, PathParams(path), FormatPathData(path.d), <<>>)>>

\* ComposeGenerator._generate_path_helper_method: the routine's name is the
\* number n of build<Icon>Path<n>
GeneratePathHelperMethod(path, method_name) ==
    Block("path", method_name, PathParams(path), FormatPathData(path.d), <<>>)

\* _apply_group_opacity_to_path with the stroke branch guarded by the fill
ApplyGroupOpacityToPathFillGuard(path, group_opacity) ==
    IF group_opacity >= 1000 THEN path
    ELSE LET filled == IF path.fill # NONE
                       THEN [path EXCEPT !.fill_opacity =
                                <<(GetAttr(@, 1000) * group_opacity) \div 1000>>]
                       ELSE path
         IN  IF filled.fill # NONE
             THEN [filled EXCEPT !.stroke_opacity =
                      <<(GetAttr(@, 1000) * group_opacity) \div 1000>>]
             ELSE filled

\* ComposeGenerator._apply_group_opacity_to_path
ApplyGroupOpacityToPath(path, group_opacity) ==
    IF group_opacity >= 1000 THEN path
    ELSE LET filled == IF path.fill # NONE
                       THEN [path EXCEPT !.fill_opacity =
                                <<(GetAttr(@, 1000) * group_opacity) \div 1000>>]
                       ELSE path
         IN  IF filled.stroke # NONE
             THEN [filled EXCEPT !.stroke_opacity =
                      <<(GetAttr(@, 1000) * group_opacity) \div 1000>>]
             ELSE filled

\* ComposeGenerator.generate_group_code; every child is a PathData
GenerateGroupCode(group_data) ==
    IF group_data.children = <<>> THEN <<>>
    ELSE <<Block("group", 0, <<>>, <<>>,
                 Flatten([c \in 1..Len(group_data.children) |->
                     GeneratePathCode(ApplyGroupOpacityToPath(group_data.children[c],
                                                              group_data.opacity))]))>>

\* ComposeGenerator._create_chunk_path_data
CreateChunkPathData(original_path_data, cmds) ==
    [original_path_data EXCEPT !.d = CommandsToPathString(cmds)]

Min(a, b) == IF a < b THEN a ELSE b

\* command_chunks with the slice taken one command too long,
\* commands[i:i + max_commands + 1]
CommandChunksOverlap(cmds, max_commands) ==
    Flatten([c \in 1..((Len(cmds) + max_commands - 1) \div max_commands) |->
        <<SubSeq(cmds, (c - 1) * max_commands + 1, Min(c * max_commands + 1, Len(cmds)))>>])

\* command_chunks of _generate_split_path_methods
CommandChunks(cmds, max_commands) ==
    Flatten([c \in 1..((Len(cmds) + max_commands - 1) \div max_commands) |->
        <<SubSeq(cmds, (c - 1) * max_commands + 1, Min(c * max_commands, Len(cmds)))>>])

\* ComposeGenerator._generate_split_path_methods
GenerateSplitPathMethods(path, cmds, helper_counter, max_commands) ==
    LET command_chunks == CommandChunks(cmds, max_commands)
    IN  [methods |-> Flatten([c \in 1..Len(command_chunks) |->
                         <<GeneratePathHelperMethod(
                               CreateChunkPathData(path, command_chunks[c]),
                               helper_counter + (c - 1) + 1)>>]),
         calls |-> Flatten([c \in 1..Len(command_chunks) |->
                         <<Block("call", helper_counter + (c - 1) + 1, <<>>, <<>>, <<>>)>>])]

MAX_COMMANDS_PER_METHOD == 300

\* the loop over svg_data.paths of _generate_all_paths_with_splitting
RECURSIVE StandalonePaths(_, _, _)
StandalonePaths(paths, k, acc) ==
    IF k > Len(paths) THEN acc
    ELSE LET path == paths[k]
             cmds == ParsePathCommands(path.d)
         IN  IF Len(cmds) > MAX_COMMANDS_PER_METHOD
             THEN LET helper_calls == GenerateSplitPathMethods(
                          path, cmds, acc.helper_counter, MAX_COMMANDS_PER_METHOD)
                  IN  StandalonePaths(paths, k + 1,
                          [path_codes |-> acc.path_codes \o helper_calls.calls,
                           helper_methods |-> acc.helper_methods \o helper_calls.methods,
                           helper_counter |-> acc.helper_counter + Len(helper_calls.methods)])
             ELSE StandalonePaths(paths, k + 1,
                          [acc EXCEPT !.path_codes = @ \o GeneratePathCode(path)])

\* ComposeGenerator._generate_all_paths_with_splitting
GenerateAllPathsWithSplitting(data) ==
    LET standalone == StandalonePaths(data.paths, 1,
                          [path_codes |-> <<>>, helper_methods |-> <<>>, helper_counter |-> 0])
    IN  [path_definitions |->
             standalone.path_codes
             \o Flatten([g \in 1..Len(data.groups) |->
                            GenerateGroupCode(data.groups[g])]),
         helper_methods |-> standalone.helper_methods]

------------------------------------------------------------------------------
(* ComposeGenerator.convert_to_pascal_case.  A name is the sequence of its  *)
(* characters.                                                               *)

\* the class [_\-\s\.@#\(\)\[\]] of the split pattern
IsNameSeparator(c) == c \in {"_", "-", " ", "\t", "\n", ".", "@", "#", "(", ")", "[", "]"}

\* [a-zA-Z]
IsAsciiLetter(c) == IndexIn(LowerCase, c) > 0 \/ IndexIn(UpperCase, c) > 0

\* the words of re.split(r'[_\-\s\.@#\(\)\[\]]+', snake_case) that pass
\* "if word": the longest runs of characters other than separators
Words(snake_case) ==
    LET starts == SelectSeq(Places(Len(snake_case)), LAMBDA p :
                      /\ ~IsNameSeparator(snake_case[p])
                      /\ (p = 1 \/ IsNameSeparator(snake_case[p - 1])))
        EndOf(p) == CHOOSE q \in p..Len(snake_case) :
                      /\ \A r \in p..q : ~IsNameSeparator(snake_case[r])
                      /\ (q = Len(snake_case) \/ IsNameSeparator(snake_case[q + 1]))
    IN  AsTuple([k \in 1..Len(starts) |-> SubSeq(snake_case, starts[k], EndOf(starts[k]))])

\* re.sub(r'[^a-zA-Z0-9]', '', word)
CleanWord(word) == SelectSeq(word, LAMBDA c : IsAsciiLetter(c) \/ IsDigit(c))

\* str.capitalize()
Capitalize(word) ==
    IF word = <<>> THEN <<>>
    ELSE AsTuple(StrUpper(<<word[1]>>)) \o AsTuple(StrLower(Tail(word)))

ICON == <<"I", "c", "o", "n">>
UNKNOWN == <<"U", "n", "k", "n", "o", "w", "n">>

\* kotlin_keywords
KotlinKeywords ==
    { <<"c", "l", "a", "s", "s">>,
      <<"o", "b", "j", "e", "c", "t">>,
      <<"i", "n", "t", "e", "r", "f", "a", "c", "e">>,
      <<"f", "u", "n">>,
      <<"v", "a", "l">>,
      <<"v", "a", "r">>,
      <<"i", "f">>,
      <<"e", "l", "s", "e">>,
      <<"w", "h", "e", "n">>,
      <<"f", "o", "r">>,
      <<"w", "h", "i", "l", "e">>,
      <<"d", "o">>,
      <<"t", "r", "y">>,
      <<"c", "a", "t", "c", "h">>,
      <<"f", "i", "n", "a", "l", "l", "y">>,
      <<"r", "e", "t", "u", "r", "n">>,
      <<"b", "r", "e", "a", "k">>,
      <<"c", "o", "n", "t", "i", "n", "u", "e">>,
      <<"t", "h", "r", "o", "w">>,
      <<"i", "m", "p", "o", "r", "t">>,
      <<"p", "a", "c", "k", "a", "g", "e">>,
      <<"a", "s">>,
      <<"i", "s">>,
      <<"i", "n">> }

\* convert_to_pascal_case with the reserved words looked up as written,
\* "if result in kotlin_keywords"
ConvertToPascalCaseExact(snake_case) ==
    LET words == Words(snake_case)
        clean_words == Flatten([k \in 1..Len(words) |->
            LET clean_word == CleanWord(words[k])
            IN  IF clean_word = <<>> THEN <<>>
                ELSE <<Capitalize(IF IsDigit(clean_word[1]) THEN ICON \o clean_word
                                  ELSE clean_word)>>])
        joined == Flatten(clean_words)
        result == IF joined = <<>> \/ ~IsAsciiLetter(joined[1])
                  THEN ICON \o (IF joined # <<>> THEN joined ELSE UNKNOWN)
                  ELSE joined
    IN  IF result \in KotlinKeywords THEN result \o ICON ELSE result

\* ComposeGenerator.convert_to_pascal_case
ConvertToPascalCase(snake_case) ==
    LET words == Words(snake_case)
        clean_words == Flatten([k \in 1..Len(words) |->
            LET clean_word == CleanWord(words[k])
            IN  IF clean_word = <<>> THEN <<>>
                ELSE <<Capitalize(IF IsDigit(clean_word[1]) THEN ICON \o clean_word
                                  ELSE clean_word)>>])
        joined == Flatten(clean_words)
        result == IF joined = <<>> \/ ~IsAsciiLetter(joined[1])
                  THEN ICON \o (IF joined # <<>> THEN joined ELSE UNKNOWN)
                  ELSE joined
    IN  IF AsTuple(StrLower(result)) \in KotlinKeywords THEN result \o ICON ELSE result

-----------------------------------------------------------------------------
(* svg_parser.SVGParser.  An element is [tag, attrs, children]; attrs maps   *)
(* the names of the attributes present to their text.  The d attribute is    *)
(* path-data text, every other attribute is a sequence of characters.        *)

Element(tag, attrs, children) == [tag |-> tag, attrs |-> attrs, children |-> children]

\* element.get(name, default)
Get(element, name, default) ==
    IF name \in DOMAIN element.attrs THEN element.attrs[name] ELSE default

Has(element, name) == name \in DOMAIN element.attrs

\* float(text) succeeds: an optional sign, digits, an optional fraction
IsFloatStr(str) ==
    LET p1 == IF At(str, 1) \in {"+", "-"} THEN 2 ELSE 1
        p2 == DigitsEnd(str, p1)
        p3 == IF At(str, p2 + 1) = "." THEN DigitsEnd(str, p2 + 2) ELSE p2
    IN  /\ p2 >= p1
        /\ p3 = Len(str)
        /\ At(str, p2 + 1) = "." => p3 >= p2 + 2

\* float(text), in thousandths (up to three fractional digits)
FloatStr(str) ==
    LET p1 == IF At(str, 1) \in {"+", "-"} THEN 2 ELSE 1
        p2 == DigitsEnd(str, p1)
        frac == Slice(str, p2 + 2, Len(str))
        scale == CASE Len(frac) = 0 -> 0 [] Len(frac) = 1 -> 100
                   [] Len(frac) = 2 -> 10 [] OTHER -> 1
        magnitude == 1000 * IntOf(Slice(str, p1, p2)) + scale * IntOf(Slice(frac, 1, 3))
    IN  IF At(str, 1) = "-" THEN 0 - magnitude ELSE magnitude

\* element.iter(): the element and its descendants, in document order
RECURSIVE Iter(_)
Iter(element) ==
    <<element>> \o Flatten([c \in 1..Len(element.children) |-> Iter(element.children[c])])

\* element.iter(tag)
IterTag(element, tag) == SelectSeq(Iter(element), LAMBDA e : e.tag = tag)

\* str.strip()
StripText(str) ==
    LET solid == {p \in 1..Len(str) : str[p] \notin {" ", "\n", "\t"}}
    IN  IF solid = {} THEN <<>>
        ELSE SubSeq(str, CHOOSE p \in solid : \A q \in solid : p <= q,
                         CHOOSE p \in solid : \A q \in solid : q <= p)

\* str.split(sep), sep one character
SplitText(str, sep) ==
    LET cuts == <<0>> \o SelectSeq(Places(Len(str)), LAMBDA p : str[p] = sep)
                      \o <<Len(str) + 1>>
    IN  [k \in 1..(Len(cuts) - 1) |-> Slice(str, cuts[k] + 1, cuts[k + 1] - 1)]

\* str.find(c) + 1: the first place of c in str, 0 when there is none
Find(str, c) ==
    IF \E p \in 1..Len(str) : str[p] = c
    THEN CHOOSE p \in 1..Len(str) : str[p] = c /\ \A q \in 1..(p - 1) : str[q] # c
    ELSE 0

\* SVGParser._parse_css_properties: the dict, a function from the keys to
\* their values; a later declaration of a key replaces an earlier one
ParseCssProperties(properties_text) ==
    LET props == SplitText(properties_text, ";")
        Prop(k) == StripText(props[k])
        declared == {k \in 1..Len(props) : Find(Prop(k), ":") > 0}
        Key(k) == StripText(Slice(Prop(k), 1, Find(Prop(k), ":") - 1))
        Value(k) == StripText(Slice(Prop(k), Find(Prop(k), ":") + 1, Len(Prop(k))))
    IN  [key \in {Key(k) : k \in declared} |->
            Value(CHOOSE k \in declared :
                     Key(k) = key /\ \A j \in declared : Key(j) = key => j <= k)]

\* SVGParser._parse_inline_style
ParseInlineStyle(style_attr) == ParseCssProperties(style_attr)

\* the match of \.<class_name>\s*\{([^}]+)\} that starts at place p of
\* style_text: <<>> for none, else <<group(1)>>
ClassRuleAt(style_text, class_name, p) ==
    LET open == SkipBlanks(style_text, p + 1 + Len(class_name))
        rest == Slice(style_text, open + 1, Len(style_text))
    IN  IF /\ At(style_text, p) = "."
           /\ Slice(style_text, p + 1, p + Len(class_name)) = class_name
           /\ At(style_text, open) = "{"
           /\ Find(rest, "}") > 1
        THEN <<Slice(rest, 1, Find(rest, "}") - 1)>>
        ELSE <<>>

\* re.search(class_pattern, style_text): the leftmost match
ClassRuleSearch(style_text, class_name) ==
    LET starts == {p \in 1..Len(style_text) : ClassRuleAt(style_text, class_name, p) # <<>>}
    IN  IF starts = {} THEN <<>>
        ELSE ClassRuleAt(style_text, class_name, CHOOSE p \in starts : \A q \in starts : p <= q)

\* SVGParser._resolve_css_class: the dict of the first style element with a
\* rule for the class, the empty dict for None (both are false in a test).
\* The text of a style element is kept with its attributes, as "text".
ResolveCssClass(current_root, class_name) ==
    LET texts == [k \in 1..Len(IterTag(current_root, "style")) |->
                     Get(IterTag(current_root, "style")[k], "text", <<>>)]
        matching == SelectSeq(texts, LAMBDA t : ClassRuleSearch(t, class_name) # <<>>)
    IN  IF matching = <<>> THEN <<>>
        ELSE ParseCssProperties(ClassRuleSearch(matching[1], class_name)[1])

KeyFill == <<"f", "i", "l", "l">>
KeyStroke == <<"s", "t", "r", "o", "k", "e">>
KeyStrokeWidth == KeyStroke \o <<"-", "w", "i", "d", "t", "h">>
KeyOpacity == <<"o", "p", "a", "c", "i", "t", "y">>

\* the four overrides one style_info makes (lines 383-396 and 402-415)
ApplyStyleInfo(style, style_info) ==
    [fill |-> IF KeyFill \in DOMAIN style_info THEN style_info[KeyFill] ELSE style.fill,
     stroke |-> IF KeyStroke \in DOMAIN style_info THEN style_info[KeyStroke]
                ELSE style.stroke,
     stroke_width |->
         IF KeyStrokeWidth \in DOMAIN style_info /\ IsFloatStr(style_info[KeyStrokeWidth])
         THEN FloatStr(style_info[KeyStrokeWidth]) ELSE style.stroke_width,
     opacity |->
         IF KeyOpacity \in DOMAIN style_info /\ IsFloatStr(style_info[KeyOpacity])
         THEN FloatStr(style_info[KeyOpacity]) ELSE style.opacity]

\* SVGParser._extract_style_attributes
ExtractStyleAttributes(element, current_root) ==
    LET direct == [fill |-> Get(element, "fill", BLACK),
                   stroke |-> Get(element, "stroke", NONE),
                   stroke_width |-> FloatStr(Get(element, "stroke-width", <<"0">>)),
                   opacity |-> FloatStr(Get(element, "opacity", <<"1">>))]
        class_name == Get(element, "class", <<>>)
        classed == IF class_name # <<>>
                   THEN ApplyStyleInfo(direct, ResolveCssClass(current_root, class_name))
                   ELSE direct
        style_attr == Get(element, "style", <<>>)
    IN  IF style_attr # <<>> THEN ApplyStyleInfo(classed, ParseInlineStyle(style_attr))
        ELSE classed

\* float() raises ValueError in _extract_style_attributes (lines 374-375)
ExtractStyleAttributesRaises(element) ==
    \/ ~IsFloatStr(Get(element, "stroke-width", <<"0">>))
    \/ ~IsFloatStr(Get(element, "opacity", <<"1">>))

\* SVGParser._parse_path_element: <<>> for None, else the one PathData
ParsePathElement(path_elem, current_root) ==
    IF Get(path_elem, "d", <<>>) = <<>> THEN <<>>
    ELSE LET style == ExtractStyleAttributes(path_elem, current_root)
         IN  <<PathData(Strip(path_elem.attrs["d"]), style.fill, style.stroke,
                        style.stroke_width, Get(path_elem, "fill-rule", NONZERO),
                        style.opacity, Get(path_elem, "transform", <<>>))>>

\* SVGParser.extract_paths, the path elements, while self._current_root is
\* current_root
ExtractPathsUnder(svg_root, current_root) ==
    LET elems == IterTag(svg_root, "path")
    IN  Flatten([k \in 1..Len(elems) |-> ParsePathElement(elems[k], current_root)])

\* SVGParser.extract_paths in parse_svg_file run alone: self._current_root
\* is the root of the document
ExtractPaths(svg_root) == ExtractPathsUnder(svg_root, svg_root)

\* SVGParser._parse_group_element
ParseGroupElement(group_elem, current_root) ==
    LET elems == IterTag(group_elem, "path")
    IN  GroupData(Get(group_elem, "transform", <<>>),
                  FloatStr(Get(group_elem, "opacity", <<"1">>)),
                  Get(group_elem, "fill", BLACK),
                  Get(group_elem, "stroke", NONE),
                  Flatten([k \in 1..Len(elems) |-> ParsePathElement(elems[k], current_root)]))

\* SVGParser.extract_groups while self._current_root is current_root
ExtractGroupsUnder(svg_root, current_root) ==
    LET elems == IterTag(svg_root, "g")
    IN  Flatten([k \in 1..Len(elems) |-> <<ParseGroupElement(elems[k], current_root)>>])

\* SVGParser.extract_groups in parse_svg_file run alone
ExtractGroups(svg_root) == ExtractGroupsUnder(svg_root, svg_root)

\* an exception leaves parse_svg_file
ParseSvgFileRaises(svg_root) ==
    \/ \E e \in {x \in {Iter(svg_root)[k] : k \in 1..Len(Iter(svg_root))} : x.tag = "path"} :
          Get(e, "d", <<>>) # <<>> /\ ExtractStyleAttributesRaises(e)
    \/ \E e \in {x \in {Iter(svg_root)[k] : k \in 1..Len(Iter(svg_root))} : x.tag = "g"} :
          ~IsFloatStr(Get(e, "opacity", <<"1">>))

\* SVGParser.parse_svg_file: the paths and groups of the SVGData
ParseSvgFile(svg_root) ==
    [paths |-> ExtractPaths(svg_root), groups |-> ExtractGroups(svg_root)]

-----------------------------------------------------------------------------
(* Path-data inputs: a path is up to MaxSegs commands, each written as a    *)
(* letter and its operands in one of the lexical forms below.               *)

Seg(c, a, f) == [cmd |-> c, args |-> a, form |-> f]

\* the operands one after the other, each after a blank: "M 10 10"
RenderSpaced(args) == Flatten([p \in 1..Len(args) |-> <<SP>> \o Lit(args[p])])

\* the first operand right after the letter, a negative operand right after
\* the operand before it, any other after one blank: "M10 10", "l-5-5"
RenderTight(args) ==
    Flatten([p \in 1..Len(args) |->
        IF p = 1 \/ args[p] < 0 THEN Lit(args[p]) ELSE <<SP>> \o Lit(args[p])])

\* coordinate pairs joined by commas: "m 2.5,-1.496"
RenderComma(args) ==
    Flatten([p \in 1..Len(args) |->
        (IF p % 2 = 0 THEN <<COMMA>> ELSE <<SP>>) \o Lit(args[p])])

Render(seg) ==
    <<Ch(seg.cmd)>> \o
    CASE seg.form = "spaced" -> RenderSpaced(seg.args)
      [] seg.form = "tight"  -> RenderTight(seg.args)
      [] seg.form = "comma"  -> RenderComma(seg.args)
      \* the last operand is missing
      [] seg.form = "short"  -> RenderSpaced(SubSeq(seg.args, 1, Len(seg.args) - 1))
      \* the last operand is not a number
      [] seg.form = "junk"   ->
           RenderSpaced(SubSeq(seg.args, 1, Len(seg.args) - 1)) \o <<SP, JUNK>>

Segments ==
    { Seg("M", <<10000, 10000>>, "tight"),
      Seg("L", <<20000, 20000>>, "tight"),
      Seg("Z", <<>>, "spaced"),
      Seg("z", <<>>, "spaced"),
      Seg("m", <<2500, -1496>>, "comma"),
      Seg("l", <<-5000, -5000>>, "tight"),
      Seg("C", <<1000, 2000, 3000, 4000, 5000, 6000>>, "spaced"),
      Seg("c", <<1000, -2000, -3000, 4000, 5000, 6000>>, "tight"),
      Seg("H", <<7000>>, "spaced"),
      Seg("h", <<3000>>, "spaced"),
      Seg("V", <<-1000>>, "tight"),
      Seg("v", <<2500>>, "spaced"),
      Seg("S", <<1000, 2000, 3000, 4000>>, "spaced"),
      Seg("q", <<1000, 2000, 3000, 4000>>, "comma"),
      Seg("T", <<8000, 9000>>, "spaced"),
      Seg("a", <<5000, 5000, 0, 1000, 0, 4000, 4000>>, "spaced"),
      Seg("M", <<10000, 10000>>, "short"),
      Seg("L", <<20000, 20000>>, "junk") }

-----------------------------------------------------------------------------
(* The parser as a state machine *)

ParseState == [i |-> i, current_x |-> current_x, current_y |-> current_y,
               commands |-> commands]

InitParse ==
    /\ pc = "build"
    /\ segs = <<>>
    /\ path_data = <<>>
    /\ tokens = <<>>
    /\ i = 0
    /\ current_x = 0
    /\ current_y = 0
    /\ commands = <<>>
    /\ path_string = <<>>
    /\ reparsed = <<>>
    /\ lines = <<>>

\* the caller writes one more command into the d attribute
AppendSegment(seg) ==
    /\ pc = "build"
    /\ Len(segs) < MaxSegs
    /\ segs' = Append(segs, seg)
    /\ path_data' = IF path_data = <<>> THEN Render(seg)
                    ELSE path_data \o <<SP>> \o Render(seg)
    /\ UNCHANGED <<pc, tokens, i, current_x, current_y, commands, path_string, reparsed,
                   lines>>
    /\ UNCHANGED <<genVars, auxVars>>

\* _parse_path_commands up to the loop
StartParse ==
    /\ pc = "build"
    /\ pc' = "loop"
    /\ tokens' = Tokenize(path_data)
    /\ i' = 0
    /\ current_x' = 0
    /\ current_y' = 0
    /\ commands' = <<>>
    /\ UNCHANGED <<segs, path_data, path_string, reparsed, lines>>
    /\ UNCHANGED <<genVars, auxVars>>

\* one loop iteration, on a token whose upper case is cmd
Iterate(cmd) ==
    /\ pc = "loop"
    /\ i < Len(tokens)
    /\ Upper(Tok(tokens, i)) = cmd
    /\ LET st == ParseStep(tokens, ParseState)
       IN  /\ i' = st.i
           /\ current_x' = st.current_x
           /\ current_y' = st.current_y
           /\ commands' = st.commands
    /\ UNCHANGED <<pc, segs, path_data, tokens, path_string, reparsed, lines>>
    /\ UNCHANGED <<genVars, auxVars>>

StepM == Iterate("M")
StepL == Iterate("L")
StepH == Iterate("H")
StepV == Iterate("V")
StepC == Iterate("C")
StepZ == Iterate("Z")
StepSkip == \E cmd \in {"S", "Q", "T", "A", "other"} : Iterate(cmd)

\* the loop ends: return commands
Return ==
    /\ pc = "loop"
    /\ ~(i < Len(tokens))
    /\ pc' = "done"
    /\ UNCHANGED <<segs, path_data, tokens, i, current_x, current_y, commands,
                   path_string, reparsed, lines>>
    /\ UNCHANGED <<genVars, auxVars>>

\* the parsed commands written back to text and parsed again, as
\* _create_chunk_path_data and _format_path_data do with a chunk
RoundTrip ==
    /\ pc = "done"
    /\ pc' = "reparsed"
    /\ path_string' = CommandsToPathString(commands)
    /\ reparsed' = ParsePathCommands(CommandsToPathString(commands))
    /\ UNCHANGED <<segs, path_data, tokens, i, current_x, current_y, commands, lines>>
    /\ UNCHANGED <<genVars, auxVars>>

\* _format_path_data on the text just parsed
FormatPath ==
    /\ pc = "done"
    /\ pc' = "formatted"
    /\ lines' = FormatPathData(path_data)
    /\ UNCHANGED <<segs, path_data, tokens, i, current_x, current_y, commands,
                   path_string, reparsed>>
    /\ UNCHANGED <<genVars, auxVars>>

NextParse ==
    \/ \E seg \in Segments : AppendSegment(seg)
    \/ StartParse
    \/ StepM
    \/ StepL
    \/ StepH
    \/ StepV
    \/ StepC
    \/ StepZ
    \/ StepSkip
    \/ Return
    \/ RoundTrip
    \/ FormatPath


\* the stepwise loop and the function agree
ParseAgrees == pc \in {"done", "reparsed"} => commands = ParsePathCommands(path_data)

-----------------------------------------------------------------------------
(* SVG documents: up to MaxElems path and g elements, g nested up to         *)
(* MaxDepth deep, each path element one of PathElements.                     *)

\* "M0 0", then "V<k>" at the even places, "L<k>.496 <k>" at the places
\* 3, 7, 11, ... and "h1" at the places 5, 9, 13, ...
BigPathCommand(k) ==
    IF k = 1 THEN <<Ch("M"), Num(0), SP, Num(0)>>
    ELSE IF k % 2 = 0 THEN <<Ch("V"), Num(1000 * k)>>
    ELSE IF k % 4 = 3 THEN <<Ch("L"), Num(1000 * k + 496), SP, Num(1000 * k)>>
    ELSE <<Ch("h"), Num(1000)>>

\* path data of n commands
BigPath(n) == JoinWithSpace([k \in 1..n |-> BigPathCommand(k)])

SmallPath ==
    JoinWithSpace(<<Render(Seg("M", <<10000, 10000>>, "tight")),
                    Render(Seg("L", <<20000, 20000>>, "tight")),
                    Render(Seg("Z", <<>>, "spaced"))>>)

PathElements ==
    { Element("path", [a \in {"d"} |-> SmallPath], <<>>),
      Element("path", ("d" :> SmallPath) @@ ("fill" :> NONE) @@ ("stroke" :> RED), <<>>),
      Element("path", [a \in {"d"} |-> <<SP>>], <<>>),
      Element("path", ("d" :> BigPath(MAX_COMMANDS_PER_METHOD))
                        @@ ("stroke" :> Hex(<<"a", "b", "c">>))
                        @@ ("stroke-width" :> <<"1", ".", "5">>), <<>>),
      Element("path", [a \in {"d"} |-> BigPath(MAX_COMMANDS_PER_METHOD + 1)], <<>>),
      Element("path", ("d" :> BigPath(2 * MAX_COMMANDS_PER_METHOD + 50))
                        @@ ("stroke" :> RED) @@ ("stroke-width" :> <<"2">>), <<>>) }

GroupElements ==
    { Element("g", <<>>, <<>>),
      Element("g", [a \in {"opacity"} |-> <<"0", ".", "5">>], <<>>) }

RECURSIVE AppendAt(_, _, _)
AppendAt(element, pos, child) ==
    IF pos = <<>> THEN [element EXCEPT !.children = Append(@, child)]
    ELSE [element EXCEPT !.children[Head(pos)] = AppendAt(@, Tail(pos), child)]

\* where the g elements are: the index paths from the root, up to depth d
RECURSIVE GroupPositions(_, _)
GroupPositions(element, d) ==
    {<<>>} \cup
    (IF d = 0 THEN {}
     ELSE UNION { { <<c>> \o pos : pos \in GroupPositions(element.children[c], d - 1) } :
                  c \in {x \in 1..Len(element.children) : element.children[x].tag = "g"} })

-----------------------------------------------------------------------------
(* One conversion as a state machine *)

InitGen ==
    /\ gpc = "edit"
    /\ root = Element("svg", <<>>, <<>>)
    /\ svg_data = [paths |-> <<>>, groups |-> <<>>]
    /\ kotlin_code = [path_definitions |-> <<>>, helper_methods |-> <<>>]

\* the author adds a path element to the document
AddPathElement(pos, e) ==
    /\ gpc = "edit"
    /\ Len(Iter(root)) - 1 < MaxElems
    /\ root' = AppendAt(root, pos, e)
    /\ UNCHANGED <<gpc, svg_data, kotlin_code>>
    /\ UNCHANGED <<parseVars, auxVars>>

\* the author adds a g element to the document
AddGroupElement(pos, e) ==
    /\ gpc = "edit"
    /\ Len(Iter(root)) - 1 < MaxElems
    /\ Len(pos) < MaxDepth
    /\ root' = AppendAt(root, pos, e)
    /\ UNCHANGED <<gpc, svg_data, kotlin_code>>
    /\ UNCHANGED <<parseVars, auxVars>>

\* SVGParser.parse_svg_file
DoParseSvgFile ==
    /\ gpc = "edit"
    /\ ~ParseSvgFileRaises(root)
    /\ gpc' = "parsed"
    /\ svg_data' = ParseSvgFile(root)
    /\ UNCHANGED <<root, kotlin_code>>
    /\ UNCHANGED <<parseVars, auxVars>>

\* ComposeGenerator.generate_vector_drawable
GenerateVectorDrawable ==
    /\ gpc = "parsed"
    /\ gpc' = "generated"
    /\ kotlin_code' = GenerateAllPathsWithSplitting(svg_data)
    /\ UNCHANGED <<root, svg_data>>
    /\ UNCHANGED <<parseVars, auxVars>>

Next ==
    \/ \E pos \in GroupPositions(root, MaxDepth), e \in PathElements : AddPathElement(pos, e)
    \/ \E pos \in GroupPositions(root, MaxDepth), e \in GroupElements : AddGroupElement(pos, e)
    \/ DoParseSvgFile
    \/ GenerateVectorDrawable

------------------------------------------------------------------------------
(* main.SVGToComposeConverter: the icon pack.  A generated file is           *)
(* [path, name]: the parts of its path below the output directory and the    *)
(* variable name its text declares.                                          *)

\* ord(c) of a letter, a digit, '-', '_' or '.'
CodePoint(c) ==
    IF IndexIn(UpperCase, c) > 0 THEN 64 + IndexIn(UpperCase, c)
    ELSE IF IndexIn(LowerCase, c) > 0 THEN 96 + IndexIn(LowerCase, c)
    ELSE IF IsDigit(c) THEN 48 + DigitValue(c)
    ELSE IF c = "-" THEN 45
    ELSE IF c = "_" THEN 95
    ELSE 46

\* a < b for two str
RECURSIVE StrLess(_, _)
StrLess(a, b) ==
    IF b = <<>> THEN FALSE
    ELSE IF a = <<>> THEN TRUE
    ELSE IF a[1] = b[1] THEN StrLess(Tail(a), Tail(b))
    ELSE CodePoint(a[1]) < CodePoint(b[1])

\* p < q for two Path, compared by their parts
RECURSIVE PathLess(_, _)
PathLess(p, q) ==
    IF q = <<>> THEN FALSE
    ELSE IF p = <<>> THEN TRUE
    ELSE IF p[1] = q[1] THEN PathLess(Tail(p), Tail(q))
    ELSE StrLess(p[1], q[1])

\* FileProcessor.list_output_files once one more file has been written:
\* sorted(kotlin_files)
ListOutputFiles(files, file) ==
    SelectSeq(files, LAMBDA f : PathLess(f.path, file.path))
    \o <<file>>
    \o SelectSeq(files, LAMBDA f : PathLess(file.path, f.path))

\* icon_data.sort(key=lambda x: x['name']): a stable sort
RECURSIVE SortByName(_)
SortByName(data) ==
    IF data = <<>> THEN <<>>
    ELSE LET first == CHOOSE p \in 1..Len(data) :
                         /\ \A q \in 1..Len(data) : ~StrLess(data[q].name, data[p].name)
                         /\ \A q \in 1..(p - 1) : data[q].name # data[p].name
         IN  <<data[first]>>
             \o SortByName(SubSeq(data, 1, first - 1) \o SubSeq(data, first + 1, Len(data)))

ROOT == <<"R", "o", "o", "t">>

\* new_name with the directory name as it is written
NewNameUncapitalized(icon) ==
    IF Len(icon.path) > 1
    THEN icon.name \o icon.path[Len(icon.path) - 1]
    ELSE icon.name \o ROOT

\* new_name of _resolve_duplicate_names
NewName(icon) ==
    IF Len(icon.path) > 1
    THEN icon.name \o Capitalize(icon.path[Len(icon.path) - 1])
    ELSE icon.name \o ROOT

\* SVGToComposeConverter._resolve_duplicate_names
ResolveDuplicateNames(data) ==
    LET firsts == SelectSeq(Places(Len(data)), LAMBDA p :
                      \A q \in 1..(p - 1) : data[q].name # data[p].name)
        Icons(k) == SelectSeq(data, LAMBDA icon : icon.name = data[firsts[k]].name)
    IN  Flatten([k \in 1..Len(firsts) |->
            IF Len(Icons(k)) = 1 THEN Icons(k)
            ELSE [j \in 1..Len(Icons(k)) |-> [Icons(k)[j] EXCEPT !.name = NewName(Icons(k)[j])]]])

\* the icon_data of _generate_iconpack_content, before it is sorted
IconData(files) ==
    [k \in 1..Len(files) |->
        [name |-> files[k].name, path |-> files[k].path, variable_name |-> files[k].name]]

------------------------------------------------------------------------------
(* FileProcessor.get_output_path and ComposeGenerator._build_package_name:  *)
(* where the unit of an input file is written and the package it declares.  *)
(* A relative path is the sequence of its parts, the file name last.         *)

\* [a-zA-Z0-9]
IsAlnum(c) == IsAsciiLetter(c) \/ IsDigit(c)

\* the words of re.sub(r'[^a-zA-Z0-9]+', '_', filename).split('_') that pass
\* "if word": the longest runs of ASCII letters and digits
FileWords(filename) ==
    LET starts == SelectSeq(Places(Len(filename)), LAMBDA p :
                      /\ IsAlnum(filename[p])
                      /\ (p = 1 \/ ~IsAlnum(filename[p - 1])))
        EndOf(p) == CHOOSE q \in p..Len(filename) :
                      /\ \A r \in p..q : IsAlnum(filename[r])
                      /\ (q = Len(filename) \/ ~IsAlnum(filename[q + 1]))
    IN  AsTuple([k \in 1..Len(starts) |-> SubSeq(filename, starts[k], EndOf(starts[k]))])

\* kotlin_keywords of FileProcessor._convert_to_pascal_case
FileKotlinKeywords ==
    KotlinKeywords \cup { <<"t", "r", "u", "e">>,
                          <<"f", "a", "l", "s", "e">>,
                          <<"n", "u", "l", "l">>,
                          <<"t", "h", "i", "s">>,
                          <<"s", "u", "p", "e", "r">>,
                          <<"t", "y", "p", "e", "a", "l", "i", "a", "s">> }

\* FileProcessor._convert_to_pascal_case
FileConvertToPascalCase(filename) ==
    LET words == FileWords(filename)
        pascal_words == [k \in 1..Len(words) |->
            IF \A p \in 1..Len(words[k]) : IsDigit(words[k][p])
            THEN (IF k = 1 THEN ICON \o words[k] ELSE words[k])
            ELSE Capitalize(words[k])]
        joined == Flatten(pascal_words)
        result == IF IsDigit(joined[1]) THEN ICON \o joined ELSE joined
    IN  IF words = <<>> THEN ICON
        ELSE IF AsTuple(StrLower(result)) \in FileKotlinKeywords THEN result \o ICON
        ELSE result

\* Path.stem: the file name without its last suffix
Stem(name) ==
    LET dots == { p \in 2..Len(name) : name[p] = "." }
    IN  IF dots = {} \/ name[Len(name)] = "." THEN name
        ELSE SubSeq(name, 1, (CHOOSE p \in dots : \A q \in dots : q <= p) - 1)

\* FileProcessor.get_output_path, below the output directory
GetOutputPath(relative_path) ==
    SubSeq(relative_path, 1, Len(relative_path) - 1)
    \o <<FileConvertToPascalCase(Stem(relative_path[Len(relative_path)])) \o <<".", "k", "t">>>>

\* str(relative_path)
PathStr(relative_path) ==
    Flatten([k \in 1..Len(relative_path) |->
        IF k = 1 THEN relative_path[k] ELSE <<"/">> \o relative_path[k]])

\* os.path.dirname of a relative path
Dirname(path_str) ==
    LET slashes == { p \in 1..Len(path_str) : path_str[p] = "/" }
    IN  IF slashes = {} THEN <<>>
        ELSE SubSeq(path_str, 1, (CHOOSE p \in slashes : \A q \in slashes : q <= p) - 1)

\* self.package_name, "com.example.icons" unless --package is given
PACKAGE_NAME == <<"c", "o", "m", ".", "e", "x", "a", "m", "p", "l", "e", ".", "i", "c", "o", "n", "s">>

\* ComposeGenerator._build_package_name
BuildPackageName(path_str) ==
    LET dir_path == Dirname(path_str)
        parts == IF dir_path = <<>> THEN <<>> ELSE SplitText(dir_path, "/")
        Normalized(part) == LET lower == AsTuple(StrLower(part))
                            IN  [p \in 1..Len(lower) |->
                                    IF IsAlnum(lower[p]) THEN lower[p] ELSE "_"]
        path_parts == Flatten([k \in 1..Len(parts) |->
            IF parts[k] # <<>> /\ ~IsDigit(Normalized(parts[k])[1])
            THEN <<AsTuple(Normalized(parts[k]))>> ELSE <<>>])
    IN  IF path_parts = <<>> THEN PACKAGE_NAME
        ELSE PACKAGE_NAME \o Flatten([k \in 1..Len(path_parts) |-> <<".">> \o path_parts[k]])

------------------------------------------------------------------------------
(* Styled documents: direct attributes, a class rule of a style element, an *)
(* inline style, group opacity and transforms, on small paths.               *)

\* the text of the style element: .a { fill: white; opacity:0.5 }
StyleElement ==
    Element("style", [a \in {"text"} |-> <<".", "a", " ", "{", " ", "f", "i", "l", "l", ":", " ", "w", "h", "i", "t", "e", ";", " ", "o", "p", "a", "c", "i", "t", "y", ":", "0", ".", "5", " ", "}">>], <<>>)

\* <path d="M10 10 L20 20 Z" .../> with
\*   fill="red" stroke="#abc" stroke-width="2" class="a" transform="r(9)"
\*   style="fill-rule:evenodd;fill:bogus"
\*   stroke-width="2px" style="stroke-width:3"
\*   fill="none" stroke="blue" class="a" style="stroke: white; opacity:0.25"
StyledPaths ==
    { Element("path", ("d" :> SmallPath) @@ ("fill" :> RED) @@ ("stroke" :> Hex(<<"a", "b", "c">>))
                        @@ ("stroke-width" :> <<"2">>) @@ ("class" :> <<"a">>)
                        @@ ("transform" :> <<"r", "(", "9", ")">>), <<>>),
      Element("path", ("d" :> SmallPath)
                        @@ ("style" :> <<"f", "i", "l", "l", "-", "r", "u", "l", "e", ":", "e", "v", "e", "n", "o", "d", "d", ";", "f", "i", "l", "l", ":", "b", "o", "g", "u", "s">>), <<>>),
      Element("path", ("d" :> SmallPath) @@ ("stroke-width" :> <<"2", "p", "x">>)
                        @@ ("style" :> <<"s", "t", "r", "o", "k", "e", "-", "w", "i", "d", "t", "h", ":", "3">>), <<>>),
      Element("path", ("d" :> SmallPath) @@ ("fill" :> NONE) @@ ("stroke" :> BLUE)
                        @@ ("class" :> <<"a">>)
                        @@ ("style" :> <<"s", "t", "r", "o", "k", "e", ":", " ", "w", "h", "i", "t", "e", ";", " ", "o", "p", "a", "c", "i", "t", "y", ":", "0", ".", "2", "5">>), <<>>) }

\* <g opacity="0.5" transform="r(9)"> and <g opacity="50%">
StyledGroups ==
    { Element("g", ("opacity" :> <<"0", ".", "5">>) @@ ("transform" :> <<"r", "(", "9", ")">>), <<>>),
      Element("g", [a \in {"opacity"} |-> <<"5", "0", "%">>], <<>>) }

\* the author adds an element to the document
AddStyled(pos, e) ==
    /\ gpc = "edit"
    /\ Len(Iter(root)) - 1 < MaxStyled
    /\ root' = AppendAt(root, pos, e)
    /\ UNCHANGED <<gpc, svg_data, kotlin_code>>
    /\ UNCHANGED <<parseVars, auxVars>>

\* SVGParser.parse_svg_file logs the exception and raises it again
ParseSvgFileFails ==
    /\ gpc = "edit"
    /\ ParseSvgFileRaises(root)
    /\ gpc' = "raised"
    /\ UNCHANGED <<root, svg_data, kotlin_code>>
    /\ UNCHANGED <<parseVars, auxVars>>

NextStyle ==
    \/ \E pos \in GroupPositions(root, MaxDepth),
          e \in StyledPaths \cup StyledGroups \cup {StyleElement} : AddStyled(pos, e)
    \/ DoParseSvgFile
    \/ ParseSvgFileFails
    \/ GenerateVectorDrawable

------------------------------------------------------------------------------
(* One call of _apply_group_opacity_to_path, as generate_group_code makes it *)
(* for a child of a group: the child is a PathData fresh from the parser.    *)

\* fill and stroke values of a child element
ChildPaints == {NONE, BLACK, RED, Hex(<<"a", "b", "c">>)}

\* stroke widths of a child element, thousandths
ChildStrokeWidths == {0, 1500}

\* opacity values of the enclosing group, thousandths
GroupOpacities == {0, 250, 500, 1000}

InitOpacity ==
    /\ opc = "none"
    /\ child_path = <<>>
    /\ applied_opacity = 1000
    /\ modified_path = <<>>

\* the child as _parse_path_element builds it
ChooseChild(fill, stroke, stroke_width) ==
    /\ opc = "none"
    /\ opc' = "child"
    /\ child_path' = PathData(SmallPath, fill, stroke, stroke_width, NONZERO, 1000, <<>>)
    /\ UNCHANGED <<applied_opacity, modified_path>>
    /\ UNCHANGED <<parseVars, genVars, nameVars, packVars, restVars>>

\* child_with_opacity = self._apply_group_opacity_to_path(child, group_data.opacity)
ApplyGroupOpacity(g) ==
    /\ opc = "child"
    /\ opc' = "applied"
    /\ applied_opacity' = g
    /\ modified_path' = ApplyGroupOpacityToPath(child_path, g)
    /\ UNCHANGED child_path
    /\ UNCHANGED <<parseVars, genVars, nameVars, packVars, restVars>>

NextOpacity ==
    \/ \E fill \in ChildPaints, stroke \in ChildPaints, stroke_width \in ChildStrokeWidths :
          ChooseChild(fill, stroke, stroke_width)
    \/ \E g \in GroupOpacities : ApplyGroupOpacity(g)

------------------------------------------------------------------------------
(* One call of convert_to_pascal_case on a file stem                       *)

\* the characters of a stem: letters of reserved words, a capital, a digit,
\* separators, and characters that are no ASCII letter or digit
NameChars == {"i", "s", "A", "2", "-", ".", "!", "é"}

InitName ==
    /\ npc = "stem"
    /\ stem = <<>>
    /\ icon_name = <<>>

\* one more character of the stem
AppendChar(c) ==
    /\ npc = "stem"
    /\ Len(stem) < MaxNameLen
    /\ stem' = Append(stem, c)
    /\ UNCHANGED <<npc, icon_name>>
    /\ UNCHANGED <<parseVars, genVars, opacityVars, packVars, restVars>>

\* icon_name = self.convert_to_pascal_case(class_name)
ConvertName ==
    /\ npc = "stem"
    /\ npc' = "converted"
    /\ icon_name' = ConvertToPascalCase(stem)
    /\ UNCHANGED stem
    /\ UNCHANGED <<parseVars, genVars, opacityVars, packVars, restVars>>

NextName ==
    \/ \E c \in NameChars : AppendChar(c)
    \/ ConvertName

------------------------------------------------------------------------------
(* One icon pack over the files of the output directory *)

EDIT == <<"E", "d", "i", "t">>

\* files E.kt and F.kt in the root, in x, in aB, in a/x and in b/x, each
\* declaring Edit or EditX
GeneratedFiles ==
    { [path |-> dir \o <<file>>, name |-> name] :
        dir \in { <<>>, << <<"x">> >>, << <<"a", "B">> >>,
                  << <<"a">>, <<"x">> >>, << <<"b">>, <<"x">> >> },
        file \in { <<"E", ".", "k", "t">>, <<"F", ".", "k", "t">> },
        name \in { EDIT, EDIT \o <<"X">> } }

InitPack ==
    /\ ppc = "files"
    /\ output_files = <<>>
    /\ icon_data = <<>>
    /\ resolved_icons = <<>>

\* one more generated file in the output directory
WriteKotlinFile(file) ==
    /\ ppc = "files"
    /\ Len(output_files) < MaxIcons
    /\ \A k \in 1..Len(output_files) : output_files[k].path # file.path
    /\ output_files' = ListOutputFiles(output_files, file)
    /\ UNCHANGED <<ppc, icon_data, resolved_icons>>
    /\ UNCHANGED <<parseVars, genVars, opacityVars, nameVars, restVars>>

\* _generate_iconpack_content up to the aggregation pass
GenerateIconpackContent ==
    /\ ppc = "files"
    /\ output_files # <<>>
    /\ ppc' = "resolved"
    /\ icon_data' = SortByName(IconData(output_files))
    /\ resolved_icons' = ResolveDuplicateNames(SortByName(IconData(output_files)))
    /\ UNCHANGED output_files
    /\ UNCHANGED <<parseVars, genVars, opacityVars, nameVars, restVars>>

NextPack ==
    \/ \E file \in GeneratedFiles : WriteKotlinFile(file)
    \/ GenerateIconpackContent

------------------------------------------------------------------------------
(* Runs of main() over one input directory and one output directory.  An    *)
(* input file is [path, parses]: its path below the input directory and      *)
(* whether parse_svg_file returns for its text.  A file of the output        *)
(* directory is [path, name, package, source]: its path below the output     *)
(* directory, the first 'val name: ImageVector' of its text, its package     *)
(* line and the input file it was generated from.                            *)

\* a-b.svg, a_b.svg and q.svg (not well-formed) in the input directory,
\* e.svg in x/, in X/ and in 2x/
InputFiles ==
    { [path |-> <<<<"a", "-", "b", ".", "s", "v", "g">>>>, parses |-> TRUE],
      [path |-> <<<<"a", "_", "b", ".", "s", "v", "g">>>>, parses |-> TRUE],
      [path |-> <<<<"q", ".", "s", "v", "g">>>>, parses |-> FALSE],
      [path |-> <<<<"x">>, <<"e", ".", "s", "v", "g">>>>, parses |-> TRUE],
      [path |-> <<<<"X">>, <<"e", ".", "s", "v", "g">>>>, parses |-> TRUE],
      [path |-> <<<<"2", "x">>, <<"e", ".", "s", "v", "g">>>>, parses |-> TRUE] }

\* FileProcessor.scan_directory: sorted(svg_files)
ScanDirectory(dir) ==
    CHOOSE found \in [1..Cardinality(dir) -> dir] :
        \A a, b \in 1..Cardinality(dir) : a < b => PathLess(found[a].path, found[b].path)

\* the file convert_single_file writes for an input file: the text of
\* generate_vector_drawable at get_output_path
KotlinFile(svg_path) ==
    [path |-> GetOutputPath(svg_path.path),
     name |-> ConvertToPascalCase(Stem(svg_path.path[Len(svg_path.path)])),
     package |-> BuildPackageName(PathStr(svg_path.path)),
     source |-> svg_path.path]

\* the output directory after FileProcessor.write_kotlin_file: open(.., 'w')
\* replaces a file of the same path
Written(files, file) ==
    ListOutputFiles(SelectSeq(files, LAMBDA f : f.path # file.path), file)

\* iconpack_path below the output directory, iconpack_name "Icons"
ICONPACK_PATH == <<<<"I", "c", "o", "n", "s", ".", "k", "t">>>>

NO_SVG_FILES == [message |-> "No SVG files found", name |-> <<>>]

FailedToConvert(svg_path) ==
    [message |-> "Failed to convert", name |-> svg_path.path[Len(svg_path.path)]]

InitBatch ==
    /\ bpc = "idle"
    /\ input_dir = {}
    /\ output_dir = <<>>
    /\ dry_run = FALSE
    /\ clean_output = FALSE
    /\ svg_files = <<>>
    /\ report = [total_files |-> 0, successful_conversions |-> 0,
                 failed_conversions |-> 0, errors |-> <<>>, output_files |-> <<>>]
    /\ iconpack_content = <<>>
    /\ runs = 0

\* the user puts one more SVG file into the input directory, before the
\* first run or after a run and its icon pack
AddSvgFile(svg_path) ==
    /\ bpc \in {"idle", "packed"}
    /\ svg_path \notin input_dir
    /\ Cardinality(input_dir) < MaxInputs
    /\ input_dir' = input_dir \cup {svg_path}
    /\ UNCHANGED <<bpc, output_dir, dry_run, clean_output, svg_files, report,
                   iconpack_content, runs>>
    /\ UNCHANGED <<parseVars, genVars, opacityVars, nameVars, packVars, sharedVars, accessVars>>

\* convert_all that cleans the output directory whenever --clean is given
ConvertAllCleaning(dry, clean) ==
    /\ bpc # "loop"
    /\ runs < MaxRuns
    /\ runs' = runs + 1
    /\ dry_run' = dry
    /\ clean_output' = clean
    /\ output_dir' = IF clean THEN <<>> ELSE output_dir
    /\ svg_files' = ScanDirectory(input_dir)
    /\ report' = [total_files |-> Cardinality(input_dir), successful_conversions |-> 0,
                  failed_conversions |-> 0,
                  errors |-> IF input_dir = {} THEN <<NO_SVG_FILES>> ELSE <<>>,
                  output_files |-> <<>>]
    /\ bpc' = IF input_dir = {} THEN "done" ELSE "loop"
    /\ iconpack_content' = <<>>
    /\ UNCHANGED input_dir
    /\ UNCHANGED <<parseVars, genVars, opacityVars, nameVars, packVars, sharedVars, accessVars>>

\* main() with --dry-run and --clean as given, and convert_all up to its loop
ConvertAll(dry, clean) ==
    /\ bpc # "loop"
    /\ runs < MaxRuns
    /\ runs' = runs + 1
    /\ dry_run' = dry
    /\ clean_output' = clean
    /\ output_dir' = IF clean /\ ~dry THEN <<>> ELSE output_dir
    /\ svg_files' = ScanDirectory(input_dir)
    /\ report' = [total_files |-> Cardinality(input_dir), successful_conversions |-> 0,
                  failed_conversions |-> 0,
                  errors |-> IF input_dir = {} THEN <<NO_SVG_FILES>> ELSE <<>>,
                  output_files |-> <<>>]
    /\ bpc' = IF input_dir = {} THEN "done" ELSE "loop"
    /\ iconpack_content' = <<>>
    /\ UNCHANGED input_dir
    /\ UNCHANGED <<parseVars, genVars, opacityVars, nameVars, packVars, sharedVars, accessVars>>

\* one iteration of a loop that ends at the first failed conversion
ConvertSingleFileOrStop ==
    /\ bpc = "loop"
    /\ LET k == report.successful_conversions + report.failed_conversions + 1
           svg_path == svg_files[k]
       IN  /\ output_dir' = IF svg_path.parses /\ ~dry_run
                             THEN Written(output_dir, KotlinFile(svg_path))
                             ELSE output_dir
           /\ report' = IF svg_path.parses
                         THEN [report EXCEPT
                                  !.successful_conversions = @ + 1,
                                  !.output_files = Append(@, GetOutputPath(svg_path.path))]
                         ELSE [report EXCEPT
                                  !.failed_conversions = @ + 1,
                                  !.errors = Append(@, FailedToConvert(svg_path))]
           /\ bpc' = IF k = report.total_files \/ ~svg_path.parses THEN "done" ELSE "loop"
    /\ UNCHANGED <<input_dir, dry_run, clean_output, svg_files, iconpack_content, runs>>
    /\ UNCHANGED <<parseVars, genVars, opacityVars, nameVars, packVars, sharedVars, accessVars>>

\* one iteration of the loop of convert_all: convert_single_file
ConvertSingleFile ==
    /\ bpc = "loop"
    /\ LET k == report.successful_conversions + report.failed_conversions + 1
           svg_path == svg_files[k]
       IN  /\ output_dir' = IF svg_path.parses /\ ~dry_run
                             THEN Written(output_dir, KotlinFile(svg_path))
                             ELSE output_dir
           /\ report' = IF svg_path.parses
                         THEN [report EXCEPT
                                  !.successful_conversions = @ + 1,
                                  !.output_files = Append(@, GetOutputPath(svg_path.path))]
                         ELSE [report EXCEPT
                                  !.failed_conversions = @ + 1,
                                  !.errors = Append(@, FailedToConvert(svg_path))]
           /\ bpc' = IF k = report.total_files THEN "done" ELSE "loop"
    /\ UNCHANGED <<input_dir, dry_run, clean_output, svg_files, iconpack_content, runs>>
    /\ UNCHANGED <<parseVars, genVars, opacityVars, nameVars, packVars, sharedVars, accessVars>>

\* main() after convert_all, with --generate-index: generate_iconpack_file
GenerateIconpackFile ==
    /\ bpc = "done"
    /\ report.successful_conversions > 0
    /\ bpc' = "packed"
    /\ IF output_dir = <<>>
       THEN /\ iconpack_content' = <<>>
            /\ UNCHANGED output_dir
       ELSE LET icons == ResolveDuplicateNames(SortByName(IconData(output_dir)))
            IN  /\ iconpack_content' = icons
                /\ output_dir' =
                      IF dry_run THEN output_dir
                      ELSE Written(output_dir,
                                   [path |-> ICONPACK_PATH, name |-> icons[1].name,
                                    package |-> PACKAGE_NAME, source |-> <<>>])
    /\ UNCHANGED <<input_dir, dry_run, clean_output, svg_files, report, runs>>
    /\ UNCHANGED <<parseVars, genVars, opacityVars, nameVars, packVars, sharedVars, accessVars>>

NextBatch ==
    \/ \E svg_path \in InputFiles : AddSvgFile(svg_path)
    \/ \E dry, clean \in BOOLEAN : ConvertAll(dry, clean)
    \/ ConvertSingleFile
    \/ GenerateIconpackFile

------------------------------------------------------------------------------
(* Two conversions through one SVGToComposeConverter: parse_svg_file and    *)
(* generate_vector_drawable of each, step by step, the steps of the two      *)
(* interleaved.  self._current_root belongs to the one SVGParser.            *)

Conversions == {"first", "second"}

\* the text of another style element: .a { fill: blue }
StyleElementBlue ==
    Element("style", [a \in {"text"} |-> <<".", "a", " ", "{", " ", "f", "i", "l", "l", ":", " ", "b", "l", "u", "e", " ", "}">>], <<>>)

\* documents of one path element of class a, alone or in a group, with one
\* of the two style elements or with none
SharedDocuments ==
    { Element("svg", <<>>, sheet \o body) :
        sheet \in { <<>>, <<StyleElement>>, <<StyleElementBlue>> },
        body \in UNION { { <<path>>, <<Element("g", [a \in {"opacity"} |-> <<"0", ".", "5">>], <<path>>)>> } :
                            path \in { e \in StyledPaths : Has(e, "class") } } }

InitShared ==
    /\ tpc = [t \in Conversions |-> "idle"]
    /\ tree_root = [t \in Conversions |-> Element("svg", <<>>, <<>>)]
    /\ parser_current_root = Element("svg", <<>>, <<>>)
    /\ parsed_data = [t \in Conversions |-> [paths |-> <<>>, groups |-> <<>>]]
    /\ generated_code = [t \in Conversions |-> [path_definitions |-> <<>>, helper_methods |-> <<>>]]

\* parse_svg_file: root = tree.getroot(); self._current_root = root
StoreCurrentRoot(t, svg_root) ==
    /\ tpc[t] = "idle"
    /\ tpc' = [tpc EXCEPT ![t] = "rooted"]
    /\ tree_root' = [tree_root EXCEPT ![t] = svg_root]
    /\ parser_current_root' = svg_root
    /\ UNCHANGED <<parsed_data, generated_code>>
    /\ UNCHANGED <<parseVars, genVars, opacityVars, nameVars, packVars, batchVars, accessVars>>

\* parse_svg_file: paths = self.extract_paths(root)
SharedExtractPaths(t) ==
    /\ tpc[t] = "rooted"
    /\ tpc' = [tpc EXCEPT ![t] = "paths"]
    /\ parsed_data' = [parsed_data EXCEPT
                          ![t].paths = ExtractPathsUnder(tree_root[t], parser_current_root)]
    /\ UNCHANGED <<tree_root, parser_current_root, generated_code>>
    /\ UNCHANGED <<parseVars, genVars, opacityVars, nameVars, packVars, batchVars, accessVars>>

\* parse_svg_file: groups = self.extract_groups(root)
SharedExtractGroups(t) ==
    /\ tpc[t] = "paths"
    /\ tpc' = [tpc EXCEPT ![t] = "parsed"]
    /\ parsed_data' = [parsed_data EXCEPT
                          ![t].groups = ExtractGroupsUnder(tree_root[t], parser_current_root)]
    /\ UNCHANGED <<tree_root, parser_current_root, generated_code>>
    /\ UNCHANGED <<parseVars, genVars, opacityVars, nameVars, packVars, batchVars, accessVars>>

\* convert_single_file: kotlin_code = self.generator.generate_vector_drawable(..)
SharedGenerate(t) ==
    /\ tpc[t] = "parsed"
    /\ tpc' = [tpc EXCEPT ![t] = "generated"]
    /\ generated_code' = [generated_code EXCEPT
                             ![t] = GenerateAllPathsWithSplitting(parsed_data[t])]
    /\ UNCHANGED <<tree_root, parser_current_root, parsed_data>>
    /\ UNCHANGED <<parseVars, genVars, opacityVars, nameVars, packVars, batchVars, accessVars>>

NextShared ==
    \/ \E t \in Conversions, svg_root \in SharedDocuments : StoreCurrentRoot(t, svg_root)
    \/ \E t \in Conversions : SharedExtractPaths(t)
    \/ \E t \in Conversions : SharedExtractGroups(t)
    \/ \E t \in Conversions : SharedGenerate(t)

------------------------------------------------------------------------------
(* The accessor that generate_vector_drawable emits for a unit:              *)
(*   val Name: ImageVector                                                    *)
(*       get() {                                                              *)
(*           if (_Name != null) return _Name!!                                *)
(*           _Name = ImageVector.Builder(..).apply { .. }.build()             *)
(*           return _Name!!                                                   *)
(*       }                                                                    *)
(*   private var _Name: ImageVector? = null                                   *)
(* read by a program one read after the other.  A backing field holds 0 for  *)
(* null and otherwise the number of the build() call that made its value.    *)

\* the units of a program
Accessors == {"ArrowLeft", "ArrowRight", "Edit"}

NoRead == [unit |-> "", at |-> "idle"]

\* private var _Name: ImageVector? = null
InitAccess ==
    /\ backing = [unit \in Accessors |-> 0]
    /\ builds = [unit \in Accessors |-> 0]
    /\ reader = NoRead
    /\ returned = [unit \in Accessors |-> <<>>]

\* the program reads Name: get() is entered
ReadAccessor(unit) ==
    /\ reader = NoRead
    /\ Len(returned[unit]) < MaxReads
    /\ reader' = [unit |-> unit, at |-> "get"]
    /\ UNCHANGED <<backing, builds, returned>>
    /\ UNCHANGED <<parseVars, genVars, opacityVars, nameVars, packVars, batchVars, sharedVars>>

\* a getter that builds whatever the backing field holds
CheckBackingNever ==
    /\ reader.at = "get"
    /\ reader' = [reader EXCEPT !.at = "build"]
    /\ UNCHANGED <<backing, builds, returned>>
    /\ UNCHANGED <<parseVars, genVars, opacityVars, nameVars, packVars, batchVars, sharedVars>>

\* if (_Name != null) return _Name!!
CheckBacking ==
    /\ reader.at = "get"
    /\ IF backing[reader.unit] # 0
       THEN /\ returned' = [returned EXCEPT ![reader.unit] = Append(@, backing[reader.unit])]
            /\ reader' = NoRead
       ELSE /\ reader' = [reader EXCEPT !.at = "build"]
            /\ UNCHANGED returned
    /\ UNCHANGED <<backing, builds>>
    /\ UNCHANGED <<parseVars, genVars, opacityVars, nameVars, packVars, batchVars, sharedVars>>

\* _Name = ImageVector.Builder(..).apply { .. }.build()
BuildImageVector ==
    /\ reader.at = "build"
    /\ builds' = [builds EXCEPT ![reader.unit] = @ + 1]
    /\ backing' = [backing EXCEPT ![reader.unit] = builds[reader.unit] + 1]
    /\ reader' = [reader EXCEPT !.at = "return"]
    /\ UNCHANGED returned
    /\ UNCHANGED <<parseVars, genVars, opacityVars, nameVars, packVars, batchVars, sharedVars>>

\* return _Name!!
ReturnBacking ==
    /\ reader.at = "return"
    /\ returned' = [returned EXCEPT ![reader.unit] = Append(@, backing[reader.unit])]
    /\ reader' = NoRead
    /\ UNCHANGED <<backing, builds>>
    /\ UNCHANGED <<parseVars, genVars, opacityVars, nameVars, packVars, batchVars, sharedVars>>

NextAccess ==
    \/ \E unit \in Accessors : ReadAccessor(unit)
    \/ CheckBacking
    \/ BuildImageVector
    \/ ReturnBacking

------------------------------------------------------------------------------
(* Specifications *)

\* no path data written yet, an empty document, no call made yet
Init == InitParse /\ InitGen /\ InitOpacity /\ InitName /\ InitPack /\ InitBatch /\ InitShared
        /\ InitAccess

Spec == Init /\ [][Next]_vars

SpecParse == Init /\ [][NextParse]_vars

SpecOpacity == Init /\ [][NextOpacity]_vars

SpecStyle == Init /\ [][NextStyle]_vars

SpecName == Init /\ [][NextName]_vars

SpecPack == Init /\ [][NextPack]_vars

SpecBatch == Init /\ [][NextBatch]_vars

SpecShared == Init /\ [][NextShared]_vars

SpecAccess == Init /\ [][NextAccess]_vars

-----------------------------------------------------------------------------
(* What the path-data language says a command list means *)

IsRelativeLetter(c) == c \in {"m", "l", "h", "v", "c", "s", "q", "t", "a", "z"}

KindOf(c) ==
    CASE c \in {"M", "m"} -> "M" [] c \in {"L", "l"} -> "L"
      [] c \in {"H", "h"} -> "H" [] c \in {"V", "v"} -> "V"
      [] c \in {"C", "c"} -> "C" [] c \in {"S", "s"} -> "S"
      [] c \in {"Q", "q"} -> "Q" [] c \in {"T", "t"} -> "T"
      [] c \in {"A", "a"} -> "A" [] c \in {"Z", "z"} -> "Z"

WellFormed(seg) == seg.form \in {"spaced", "tight", "comma"}

\* the command a well-formed segment stands for when the pen is at (cx, cy),
\* every coordinate absolute
Meaning(seg, cx, cy) ==
    LET rel == IsRelativeLetter(seg.cmd)
        ox == IF rel THEN cx ELSE 0
        oy == IF rel THEN cy ELSE 0
        a == seg.args
        kind == KindOf(seg.cmd)
    IN  CASE kind \in {"M", "L"} -> [type |-> kind, x |-> a[1] + ox, y |-> a[2] + oy]
          [] kind = "H" -> [type |-> "H", x |-> a[1] + ox, relative |-> rel]
          [] kind = "V" -> [type |-> "V", y |-> a[1] + oy, relative |-> rel]
          [] kind = "C" -> [type |-> "C", x1 |-> a[1] + ox, y1 |-> a[2] + oy,
                            x2 |-> a[3] + ox, y2 |-> a[4] + oy,
                            x |-> a[5] + ox, y |-> a[6] + oy]
          [] OTHER -> [type |-> kind]

\* the pen after the command
PenX(cmd, cx) == IF cmd.type \in {"M", "L", "H", "C"} THEN cmd.x ELSE cx
PenY(cmd, cy) == IF cmd.type \in {"M", "L", "V", "C"} THEN cmd.y ELSE cy

RECURSIVE MeaningFrom(_, _, _, _)
MeaningFrom(ss, k, cx, cy) ==
    IF k > Len(ss) THEN <<>>
    ELSE IF ~WellFormed(ss[k]) THEN MeaningFrom(ss, k + 1, cx, cy)
    ELSE LET cmd == Meaning(ss[k], cx, cy)
         IN  <<cmd>> \o MeaningFrom(ss, k + 1, PenX(cmd, cx), PenY(cmd, cy))

\* the commands of the well-formed segments of ss, in order, pen starting at (0,0)
Expected(ss) == MeaningFrom(ss, 1, 0, 0)

OnlyKinds(ss, kinds) == \A k \in 1..Len(ss) : KindOf(ss[k].cmd) \in kinds
AllWellFormed(ss) == \A k \in 1..Len(ss) : WellFormed(ss[k])

Abs(n) == IF n < 0 THEN 0 - n ELSE n

-----------------------------------------------------------------------------
(* Claims on the parser *)

\* C1: a path made only of well-formed M, L, C and Z commands parses to one
\* command per letter, in order, each coordinate the operand (upper case) or
\* the operand plus the current point (lower case); the current point starts
\* at (0,0), follows M, L, C and is left alone by Z.
C1_WellFormedMLCZ ==
    (pc = "done" /\ AllWellFormed(segs) /\ OnlyKinds(segs, {"M", "L", "C", "Z"}))
        => commands = Expected(segs)

\* C2: every H / V command the parser returns carries the absolute coordinate
\* (current point plus operand for a relative h / v).
C2_HVAbsolute ==
    (/\ pc = "done" /\ AllWellFormed(segs)
     /\ OnlyKinds(segs, {"M", "L", "H", "V", "Z"})
     /\ Len(commands) = Len(segs))
        => \A k \in 1..Len(commands) :
              /\ commands[k].type = "H" => commands[k].x = Expected(segs)[k].x
              /\ commands[k].type = "V" => commands[k].y = Expected(segs)[k].y

\* C3: each S, Q, T, A with its full arity of operands is recorded as one
\* command of its kind, and every well-formed command after it is still parsed.
C3_SQTARecorded ==
    (/\ pc = "done" /\ AllWellFormed(segs)
     /\ \A k \in 1..Len(segs) : segs[k].form = "spaced" \/ segs[k].form = "comma")
        => /\ Len(commands) = Len(segs)
           /\ \A k \in 1..Len(segs) : commands[k].type = KindOf(segs[k].cmd)

\* C4: a command with too few operands or a non-numeric operand is dropped
\* alone: every well-formed M, L, C, Z command before or after it is returned.
C4_FailSoft ==
    (/\ pc = "done"
     /\ OnlyKinds(segs, {"M", "L", "C", "Z"})
     /\ \A k \in 1..Len(segs) : segs[k].form \in {"spaced", "comma", "short", "junk"})
        => commands = Expected(segs)

\* two commands of the same kind, the same relative flag and the same
\* coordinates up to the rounding of two fractional digits
SameCommand(a, b) ==
    /\ a.type = b.type
    /\ a.type \in {"M", "L"} => Abs(a.x - b.x) <= 5 /\ Abs(a.y - b.y) <= 5
    /\ a.type = "H" => Abs(a.x - b.x) <= 5 /\ a.relative = b.relative
    /\ a.type = "V" => Abs(a.y - b.y) <= 5 /\ a.relative = b.relative
    /\ a.type = "C" => /\ Abs(a.x1 - b.x1) <= 5 /\ Abs(a.y1 - b.y1) <= 5
                       /\ Abs(a.x2 - b.x2) <= 5 /\ Abs(a.y2 - b.y2) <= 5
                       /\ Abs(a.x - b.x) <= 5 /\ Abs(a.y - b.y) <= 5

\* C5: parse, write back with _commands_to_path_string, parse again: the same
\* number of commands, each of the same kind, the same relative flag and
\* the same coordinates up to the rounding of two fractional digits.
C5_RoundTrip ==
    pc = "reparsed"
        => /\ Len(reparsed) = Len(commands)
           /\ \A k \in 1..Len(commands) : SameCommand(commands[k], reparsed[k])

-----------------------------------------------------------------------------
(* Claims on the emitter and on splitting *)

\* the command kind an instruction draws
CommandKindOf(op) ==
    CASE op = "moveTo" -> "M"
      [] op = "lineTo" -> "L"
      [] op \in {"horizontalLineTo", "horizontalLineToRelative"} -> "H"
      [] op \in {"verticalLineTo", "verticalLineToRelative"} -> "V"
      [] op = "curveTo" -> "C"
      [] op = "reflectiveCurveTo" -> "S"
      [] op = "quadTo" -> "Q"
      [] op = "reflectiveQuadTo" -> "T"
      [] op = "arcTo" -> "A"
      [] op = "close" -> "Z"

\* ceil(n / 300) for a path of n > 300 commands, 0 for a path emitted inline
RoutinesOf(path) ==
    LET n == Len(ParsePathCommands(path.d))
    IN  IF n > 300 THEN (n + 299) \div 300 ELSE 0

\* the number of auxiliary routines of the paths before the k-th
RECURSIVE RoutinesBefore(_, _)
RoutinesBefore(paths, k) ==
    IF k = 1 THEN 0 ELSE RoutinesBefore(paths, k - 1) + RoutinesOf(paths[k - 1])

\* what a path contributes to the accessor body: its calls, or its one
\* block, or nothing when its d is empty
EntriesOf(path) ==
    IF RoutinesOf(path) > 0 THEN RoutinesOf(path)
    ELSE IF path.d # <<>> THEN 1 ELSE 0

RECURSIVE EntriesBefore(_, _)
EntriesBefore(paths, k) ==
    IF k = 1 THEN 0 ELSE EntriesBefore(paths, k - 1) + EntriesOf(paths[k - 1])

\* the accessor body without its group blocks
TopEntries == SelectSeq(kotlin_code.path_definitions, LAMBDA b : b.kind # "group")

\* the k-th path of svg_data.paths is split as C6 says
SplitAsClaimed(k) ==
    LET paths == svg_data.paths
        cmds == ParsePathCommands(paths[k].d)
        n == Len(cmds)
        r == (n + 299) \div 300
        first == RoutinesBefore(paths, k)
        at == EntriesBefore(paths, k)
    IN  IF n > 300
        THEN /\ first + r <= Len(kotlin_code.helper_methods)
             /\ at + r <= Len(TopEntries)
             /\ \A c \in 1..r :
                   LET routine == kotlin_code.helper_methods[first + c]
                   IN  /\ TopEntries[at + c].kind = "call"
                       /\ TopEntries[at + c].name = first + c
                       /\ routine.kind = "path"
                       /\ routine.name = first + c
                       /\ Len(routine.body) = IF c < r THEN 300 ELSE n - 300 * (r - 1)
                       /\ \A j \in 1..Len(routine.body) :
                             /\ 300 * (c - 1) + j <= n
                             /\ CommandKindOf(routine.body[j].op) = cmds[300 * (c - 1) + j].type
        ELSE paths[k].d # <<>> =>
                /\ at + 1 <= Len(TopEntries)
                /\ TopEntries[at + 1].kind = "path"
                /\ TopEntries[at + 1].name = 0
                /\ Len(TopEntries[at + 1].body) = n

\* C6: a path of svg_data.paths with n > 300 parsed commands gets exactly
\* ceil(n/300) auxiliary routines, numbered on from the routines of the paths
\* before it and called in that order from the accessor body; every routine
\* but the last holds 300 instructions, the last the remainder, and the j-th
\* instruction of the c-th routine draws the command at position
\* 300*(c-1)+j.  A path of at most 300 commands is one inline block and adds
\* no routine.
C6_SplitIntoRoutines ==
    gpc = "generated" =>
        /\ Len(kotlin_code.helper_methods)
              = RoutinesBefore(svg_data.paths, Len(svg_data.paths) + 1)
        /\ Len(TopEntries) = EntriesBefore(svg_data.paths, Len(svg_data.paths) + 1)
        /\ \A k \in 1..Len(svg_data.paths) : SplitAsClaimed(k)

\* a path of 301 commands and then one of 650: routines 1..2 and 3..5, the
\* last of 50 instructions
C6_Witness ==
    /\ gpc = "generated"
    /\ Len(svg_data.paths) = 2
    /\ Len(ParsePathCommands(svg_data.paths[1].d)) = 301
    /\ Len(ParsePathCommands(svg_data.paths[2].d)) = 650
    /\ Len(kotlin_code.helper_methods) = 5
    /\ Len(kotlin_code.helper_methods[5].body) = 50

\* the instructions of the routines first+1 .. first+r, one after the other
RoutineInstructions(first, r) ==
    Flatten([c \in 1..r |-> kotlin_code.helper_methods[first + c].body])

\* C7: for a path of more than 300 commands the instructions of its routines,
\* in call order, are the instructions _format_path_data emits for the
\* unsplit path (same kind, same absolute/relative form, same printed
\* operands), and they draw into one path: no routine after the first opens
\* a path block of its own.
C7_SplitPreservesRendering ==
    gpc = "generated" =>
        \A k \in 1..Len(svg_data.paths) :
            LET first == RoutinesBefore(svg_data.paths, k)
                r == RoutinesOf(svg_data.paths[k])
            IN  r > 0 =>
                  /\ RoutineInstructions(first, r) = FormatPathData(svg_data.paths[k].d)
                  /\ \A c \in 2..r : kotlin_code.helper_methods[first + c].kind # "path"

\* every path block of a sequence of blocks, those inside group blocks included
RECURSIVE PathBlocks(_)
PathBlocks(blocks) ==
    Flatten([b \in 1..Len(blocks) |->
        IF blocks[b].kind = "path" THEN <<blocks[b]>>
        ELSE IF blocks[b].kind = "group" THEN PathBlocks(blocks[b].children)
        ELSE <<>>])

\* the path blocks of the generated unit
AllPathBlocks == PathBlocks(kotlin_code.path_definitions) \o kotlin_code.helper_methods

\* C8: no path block of the generated unit, top-level or inside a group,
\* holds more than 300 drawing instructions.
C8_ThresholdEverywhere ==
    gpc = "generated" =>
        \A b \in 1..Len(AllPathBlocks) : Len(AllPathBlocks[b].body) <= 300

\* the path elements of the document
PathElementsOf(element) == IterTag(element, "path")

\* C9: when every path element has drawable data of at most 300 commands,
\* the unit holds exactly one path block per path element, and the top-level
\* path blocks are those of the path elements that are children of the root.
C9_OneBlockPerPath ==
    (/\ gpc = "generated"
     /\ \A e \in 1..Len(PathElementsOf(root)) :
           LET d == Strip(PathElementsOf(root)[e].attrs["d"])
           IN  d # <<>> /\ Len(ParsePathCommands(d)) <= 300)
        => /\ Len(AllPathBlocks) = Len(PathElementsOf(root))
           /\ Len(TopEntries)
                = Len(SelectSeq(root.children, LAMBDA e : e.tag = "path"))

HasStroke(block) == \E p \in 1..Len(block.params) : block.params[p].name = "stroke"

StrokeClaimed(path) == path.stroke # NONE /\ path.stroke_width > 0

\* the path of svg_data.paths whose routines include the h-th
OwnerOf(h) ==
    CHOOSE k \in 1..Len(svg_data.paths) :
        /\ RoutinesBefore(svg_data.paths, k) < h
        /\ h <= RoutinesBefore(svg_data.paths, k + 1)

\* C10: a path block carries a stroke directive exactly when its path has a
\* stroke other than "none" and a stroke width above 0: checked on every
\* auxiliary routine, and on every inline block of a document without g
\* elements.
C10_StrokeDirective ==
    gpc = "generated" =>
        /\ \A h \in 1..Len(kotlin_code.helper_methods) :
              HasStroke(kotlin_code.helper_methods[h])
                  <=> StrokeClaimed(svg_data.paths[OwnerOf(h)])
        /\ IterTag(root, "g") = <<>> =>
              \A k \in 1..Len(svg_data.paths) :
                  (RoutinesOf(svg_data.paths[k]) = 0 /\ svg_data.paths[k].d # <<>>)
                      => (HasStroke(TopEntries[EntriesBefore(svg_data.paths, k) + 1])
                              <=> StrokeClaimed(svg_data.paths[k]))

------------------------------------------------------------------------------
(* _format_path_data: precision of the printed operands *)

\* C11: every operand _format_path_data prints has the same number of
\* fractional digits, whatever the command kind: a moveTo, lineTo,
\* horizontalLineTo or verticalLineTo operand is printed with the precision of
\* a curveTo operand.
C11_UniformPrecision ==
    pc = "formatted" =>
        \A p, q \in 1..Len(lines) :
            (lines[p].args # <<>> /\ lines[q].args # <<>>) =>
                lines[p].digits = lines[q].digits

------------------------------------------------------------------------------
(* _apply_group_opacity_to_path *)

\* the opacity an object carries, 1.0 when it has none
OpacityOf(field) == GetAttr(field, 1000)

\* As first stated: the returned fill_opacity and stroke_opacity are the
\* child's times g for every child, those with fill or stroke "none" too.
C12_OpacityProductAlways ==
    opc = "applied" =>
        /\ OpacityOf(modified_path.fill_opacity) * 1000
              = OpacityOf(child_path.fill_opacity) * applied_opacity
        /\ OpacityOf(modified_path.stroke_opacity) * 1000
              = OpacityOf(child_path.stroke_opacity) * applied_opacity

\* C12: for every group opacity g in [0,1], g = 0 and g = 1 included, the path
\* returned by _apply_group_opacity_to_path has fill_opacity = the child's
\* fill_opacity (default 1.0) * g when the child's fill is not "none", and
\* stroke_opacity = the child's stroke_opacity (default 1.0) * g when its
\* stroke is not "none"; a fill or stroke of "none" keeps the opacity it had,
\* and nothing else of the child changes.
C12_OpacityProduct ==
    opc = "applied" =>
        /\ child_path.fill # NONE =>
              OpacityOf(modified_path.fill_opacity) * 1000
                 = OpacityOf(child_path.fill_opacity) * applied_opacity
        /\ child_path.fill = NONE => modified_path.fill_opacity = child_path.fill_opacity
        /\ child_path.stroke # NONE =>
              OpacityOf(modified_path.stroke_opacity) * 1000
                 = OpacityOf(child_path.stroke_opacity) * applied_opacity
        /\ child_path.stroke = NONE => modified_path.stroke_opacity = child_path.stroke_opacity
        /\ [modified_path EXCEPT !.fill_opacity = <<>>, !.stroke_opacity = <<>>] = child_path

\* a half-transparent group has been applied to a child with a stroke and no fill
C12_Witness ==
    /\ opc = "applied"
    /\ applied_opacity = 500
    /\ child_path.fill = NONE
    /\ child_path.stroke # NONE
    /\ modified_path.stroke_opacity = <<500>>

------------------------------------------------------------------------------
(* Styled documents: what is resolved and what is emitted.  Every path       *)
(* element of a styled document has drawable data below the threshold, so    *)
(* the k-th path element gives svg_data.paths[k] and the k-th top-level      *)
(* block.                                                                    *)

StyledDocument ==
    \A k \in 1..Len(PathElementsOf(root)) : PathElementsOf(root)[k].attrs["d"] = SmallPath

\* the product of the opacities of the g elements around each path element,
\* in document order
RECURSIVE OpacityAbove(_, _)
OpacityAbove(element, above) ==
    IF element.tag = "path" THEN <<above>>
    ELSE LET here == IF element.tag = "g"
                     THEN (above * FloatStr(Get(element, "opacity", <<"1">>))) \div 1000
                     ELSE above
         IN  Flatten([c \in 1..Len(element.children) |->
                         OpacityAbove(element.children[c], here)])

\* the number of g elements around each path element, in document order
RECURSIVE GroupsAbove(_, _)
GroupsAbove(element, n) ==
    IF element.tag = "path" THEN <<n>>
    ELSE Flatten([c \in 1..Len(element.children) |->
                    GroupsAbove(element.children[c], IF element.tag = "g" THEN n + 1 ELSE n)])

ParamsNamed(block, name) == SelectSeq(block.params, LAMBDA param : param.name = name)

\* what a block shows for a paint drawn with an opacity
Shown(name, color, opacity) ==
    IF color = NONE THEN <<>>
    ELSE <<Param(name, ConvertColorToComposeWithOpacity(color, opacity), 0)>>

\* C13: a path inside a group of opacity g1 inside a group of opacity g2 is
\* emitted with fill and stroke opacity = its own opacity * g1 * g2, and no
\* emitted copy of it carries another opacity.  Checked on documents whose
\* only path element lies inside two or more g elements.
C13_OpacityOverAncestors ==
    (/\ gpc = "generated"
     /\ StyledDocument
     /\ Len(PathElementsOf(root)) = 1
     /\ GroupsAbove(root, 0)[1] >= 2)
        => LET path == svg_data.paths[1]
               composed == (path.opacity * OpacityAbove(root, 1000)[1]) \div 1000
           IN  \A b \in 1..Len(AllPathBlocks) :
                  /\ ParamsNamed(AllPathBlocks[b], "fill") = Shown("fill", path.fill, composed)
                  /\ ParamsNamed(AllPathBlocks[b], "stroke")
                        = Shown("stroke", path.stroke, composed)

KeyFillRule == <<"f", "i", "l", "l", "-", "r", "u", "l", "e">>

\* what an element's sources declare for a property: <<>> or <<text>>
InlineDeclares(element, key) ==
    LET style_info == ParseCssProperties(Get(element, "style", <<>>))
    IN  IF key \in DOMAIN style_info THEN <<style_info[key]>> ELSE <<>>

ClassDeclares(element, key) ==
    LET style_info == IF Has(element, "class")
                      THEN ResolveCssClass(root, element.attrs["class"]) ELSE <<>>
    IN  IF key \in DOMAIN style_info THEN <<style_info[key]>> ELSE <<>>

\* inline style, else class rule, else attribute, else default
ByPrecedence(element, key, name, default) ==
    IF InlineDeclares(element, key) # <<>> THEN InlineDeclares(element, key)[1]
    ELSE IF ClassDeclares(element, key) # <<>> THEN ClassDeclares(element, key)[1]
    ELSE Get(element, name, default)

\* C14: once parse_svg_file has been called, every path element has its
\* PathData, whose fill, stroke, stroke-width and opacity are the values of
\* the inline style if it declares the property, else of the matched class
\* rule if it declares it, else of the attribute, else the default.
C14_StylePrecedence ==
    (gpc \in {"parsed", "raised"} /\ StyledDocument) =>
        /\ gpc = "parsed"
        /\ \A k \in 1..Len(PathElementsOf(root)) :
              LET e == PathElementsOf(root)[k]
              IN  /\ svg_data.paths[k].fill
                        = NormalizeColor(ByPrecedence(e, KeyFill, "fill", BLACK))
                  /\ svg_data.paths[k].stroke
                        = NormalizeColor(ByPrecedence(e, KeyStroke, "stroke", NONE))
                  /\ svg_data.paths[k].stroke_width
                        = FloatStr(ByPrecedence(e, KeyStrokeWidth, "stroke-width", <<"0">>))
                  /\ svg_data.paths[k].opacity
                        = FloatStr(ByPrecedence(e, KeyOpacity, "opacity", <<"1">>))

\* C15: a path whose inline style or matched class rule declares
\* fill-rule: evenodd, and which has no fill-rule attribute, gets fill_rule
\* evenodd in its PathData and a pathFillType override in its block.
C15_FillRuleFromStyle ==
    (gpc \in {"parsed", "generated"} /\ StyledDocument) =>
        \A k \in 1..Len(PathElementsOf(root)) :
            (/\ ~Has(PathElementsOf(root)[k], "fill-rule")
             /\ ByPrecedence(PathElementsOf(root)[k], KeyFillRule, "fill-rule", NONZERO)
                   = EVENODD)
                => /\ svg_data.paths[k].fill_rule = EVENODD
                   /\ gpc = "generated" =>
                         ParamsNamed(kotlin_code.path_definitions[k], "pathFillType") # <<>>

\* '#' and six upper-case hexadecimal digits, or "none"
Canonical(color) ==
    \/ color = NONE
    \/ /\ Len(color) = 7
       /\ color[1] = "#"
       /\ \A p \in 2..7 : \E h \in 1..16 : color[p] = HexDigits[h]

\* C16: every fill and stroke of a PathData is "none" or '#' followed by six
\* upper-case hexadecimal digits.
C16_CanonicalColour ==
    gpc = "parsed" =>
        \A k \in 1..Len(svg_data.paths) :
            Canonical(svg_data.paths[k].fill) /\ Canonical(svg_data.paths[k].stroke)

\* C17: no attribute, class-rule or inline-style value makes parse_svg_file
\* raise.
C17_StyleNeverRaises == gpc # "raised"

\* C18: the block of a path element with a transform attribute carries the
\* transform, and so does the group block of a g element with one.
C18_TransformPassedThrough ==
    (gpc = "generated" /\ StyledDocument) =>
        /\ \A k \in 1..Len(PathElementsOf(root)) :
              Has(PathElementsOf(root)[k], "transform") =>
                 ParamsNamed(kotlin_code.path_definitions[k], "transform") # <<>>
        /\ \A b \in 1..Len(kotlin_code.path_definitions) :
              LET block == kotlin_code.path_definitions[b]
              IN  block.kind = "group" =>
                     \A g \in 1..Len(svg_data.groups) :
                        (svg_data.groups[g].transform # <<>>
                           /\ b = Len(svg_data.paths) + g)
                          => ParamsNamed(block, "transform") # <<>>

------------------------------------------------------------------------------
(* convert_to_pascal_case *)

\* C19: for every input string, convert_to_pascal_case returns a non-empty
\* identifier that starts with an ASCII letter, contains only ASCII letters
\* and digits, and is not equal, ignoring case, to a reserved word.
C19_SafeIdentifier ==
    npc = "converted" =>
        /\ icon_name # <<>>
        /\ IsAsciiLetter(icon_name[1])
        /\ \A p \in 1..Len(icon_name) :
              IsAsciiLetter(icon_name[p]) \/ IsDigit(icon_name[p])
        /\ \A word \in KotlinKeywords :
              AsTuple(StrLower(icon_name)) # AsTuple(StrLower(word))

\* the stem "i-s", whose words join to the reserved word "is", has been converted
C19_Witness ==
    /\ npc = "converted"
    /\ stem = <<"i", "-", "s">>
    /\ icon_name = <<"I", "S", "I", "c", "o", "n">>

------------------------------------------------------------------------------
(* _resolve_duplicate_names *)

\* C20: after the aggregation pass over any batch of generated units, the
\* accessor names are pairwise distinct.
C20_DistinctNames ==
    ppc = "resolved" =>
        \A a, b \in 1..Len(resolved_icons) :
            a # b => resolved_icons[a].name # resolved_icons[b].name

\* C21: units are grouped by exact name; every member of a group with more
\* than one member is renamed to name + capitalized immediate parent
\* directory name (name + "Root" without a parent directory), every unit with
\* a unique name keeps it, and no unit's variable_name or path is changed.
C21_RenameRule ==
    ppc = "resolved" =>
        /\ Len(resolved_icons) = Len(icon_data)
        /\ \A k \in 1..Len(icon_data) :
              LET icon == icon_data[k]
                  members == { q \in 1..Len(icon_data) : icon_data[q].name = icon.name }
                  after == { q \in 1..Len(resolved_icons) : resolved_icons[q].path = icon.path }
                  parts == icon.path
                  suffix == IF Len(parts) > 1
                            THEN AsTuple(StrUpper(<<parts[Len(parts) - 1][1]>>))
                                 \o AsTuple(StrLower(Tail(parts[Len(parts) - 1])))
                            ELSE <<"R", "o", "o", "t">>
              IN  /\ Cardinality(after) = 1
                  /\ \A q \in after :
                        /\ resolved_icons[q].variable_name = icon.variable_name
                        /\ resolved_icons[q].name =
                              IF Cardinality(members) > 1 THEN icon.name \o suffix
                              ELSE icon.name

\* two units named Edit under x/ and aB/ have become EditX and EditAb
C21_Witness ==
    /\ ppc = "resolved"
    /\ \E a, b \in 1..Len(resolved_icons) :
          /\ resolved_icons[a].path = << <<"x">>, <<"E", ".", "k", "t">> >>
          /\ resolved_icons[a].variable_name = EDIT
          /\ resolved_icons[a].name = EDIT \o <<"X">>
          /\ resolved_icons[b].path = << <<"a", "B">>, <<"E", ".", "k", "t">> >>
          /\ resolved_icons[b].variable_name = EDIT
          /\ resolved_icons[b].name = EDIT \o <<"A", "b">>

------------------------------------------------------------------------------
(* The token list of _parse_path_commands *)

\* C28: for any path data in which two or more numbers follow each other with
\* no separator, each after the first starting with a sign, every number of
\* the run is a token of its own: no token made of numbers and signs alone
\* holds more than one number.
C28_EveryRunSplit ==
    pc # "build" =>
        \A q \in 1..Len(tokens) :
            LET token == tokens[q]
            IN  (\A p \in 1..Len(token) : IsNum(token[p]) \/ IsSign(token[p]))
                    => Cardinality({ p \in 1..Len(token) : IsNum(token[p]) }) <= 1

------------------------------------------------------------------------------
(* The opacity of a path element *)

\* C29: a path element's own resolved opacity reaches the output: the fill
\* and stroke colours of its block carry that opacity as alpha, and a path of
\* opacity 1 is emitted fully opaque.  Checked on documents whose only path
\* element lies outside every g element.
C29_OwnOpacityEmitted ==
    (/\ gpc = "generated"
     /\ StyledDocument
     /\ Len(PathElementsOf(root)) = 1
     /\ GroupsAbove(root, 0)[1] = 0)
        => LET path == svg_data.paths[1]
           IN  \A b \in 1..Len(AllPathBlocks) :
                  /\ ParamsNamed(AllPathBlocks[b], "fill")
                        = Shown("fill", path.fill, path.opacity)
                  /\ ParamsNamed(AllPathBlocks[b], "stroke")
                        = Shown("stroke", path.stroke, path.opacity)

------------------------------------------------------------------------------
(* Runs of main() *)

\* the output paths of the files converted in this run are pairwise distinct
DistinctOutputs ==
    \A a, b \in 1..Len(report.output_files) :
        a # b => report.output_files[a] # report.output_files[b]

\* C22: after any sequence of runs into the same output directory, with or
\* without --clean, the aggregate unit exposes one accessor per icon
\* converted in the current run and nothing else.  Checked for runs that
\* write, and whose converted files have distinct output paths.
C22_AggregateOfThisRun ==
    (bpc = "packed" /\ ~dry_run /\ DistinctOutputs)
        => /\ Len(iconpack_content) = report.successful_conversions
           /\ { iconpack_content[k].path : k \in 1..Len(iconpack_content) }
                 = { report.output_files[k] : k \in 1..Len(report.output_files) }

\* the files of the scan that parse, and those that do not, in scan order
Parseable == SelectSeq(svg_files, LAMBDA f : f.parses)

Unparseable == SelectSeq(svg_files, LAMBDA f : ~f.parses)

\* every file of the scan is in the report once, in scan order, as a
\* success or as a failure
AttemptedOnceInOrder ==
    /\ report.total_files = Len(svg_files)
    /\ report.successful_conversions + report.failed_conversions = report.total_files
    /\ report.successful_conversions = Len(Parseable)
    /\ report.failed_conversions = Len(Unparseable)
    /\ report.output_files = [k \in 1..Len(Parseable) |-> GetOutputPath(Parseable[k].path)]

OneMessagePerFailedFile ==
    report.errors = [k \in 1..Len(Unparseable) |->
                        [message |-> "Failed to convert",
                         name |-> Unparseable[k].path[Len(Unparseable[k].path)]]]

SucceededAreWritten ==
    \A k \in 1..Len(Parseable) :
        \E f \in 1..Len(output_dir) : output_dir[f].path = GetOutputPath(Parseable[k].path)

\* C23 as stated: at the end of every convert_all, every file of the scan
\* has been attempted once in scan order, successful_conversions +
\* failed_conversions = total_files, errors holds exactly one message per
\* failed file, and every file whose conversion succeeded has been written.
C23_BatchIsolationAlways ==
    bpc \in {"done", "packed"} =>
        /\ AttemptedOnceInOrder
        /\ OneMessagePerFailedFile
        /\ SucceededAreWritten

\* C23: at the end of convert_all every file of the scan has been attempted
\* once in scan order, whatever the earlier files did, and
\* successful_conversions + failed_conversions = total_files; when the scan
\* found a file, errors holds exactly one message per failed file in
\* processing order; unless dry_run is set, every file whose conversion
\* succeeded has been written.
C23_BatchIsolation ==
    bpc \in {"done", "packed"} =>
        /\ AttemptedOnceInOrder
        /\ svg_files # <<>> => OneMessagePerFailedFile
        /\ ~dry_run => SucceededAreWritten

\* a run that writes has finished over three files, the second of which
\* failed and the third of which was converted
C23_Witness ==
    /\ bpc = "done"
    /\ ~dry_run
    /\ Len(svg_files) = 3
    /\ ~svg_files[2].parses
    /\ svg_files[3].parses
    /\ report.successful_conversions = 2
    /\ report.failed_conversions = 1

\* the units of the output directory generated from an input file
ConvertedUnits == SelectSeq(output_dir, LAMBDA f : f.source # <<>>)

\* the number of segments of a package name
SegmentCount(package) == Cardinality({ p \in 1..Len(package) : package[p] = "." }) + 1

\* C24: for an input at d1/d2/.../dk/name.svg the declared package is the
\* base package followed by exactly k segments, one per directory, and two
\* inputs in different directories never get the same package.
C24_PackageMirrorsNesting ==
    \A a, b \in 1..Len(ConvertedUnits) :
        LET unit == ConvertedUnits[a]
            other == ConvertedUnits[b]
            Directory(f) == SubSeq(f.source, 1, Len(f.source) - 1)
        IN  /\ SegmentCount(unit.package) = SegmentCount(PACKAGE_NAME) + Len(Directory(unit))
            /\ Directory(unit) # Directory(other) => unit.package # other.package

\* C27: with dry_run set, no step of convert_all or generate_iconpack_file
\* writes or deletes a file of the output directory, even when clean_output
\* is set too, and each parseable file is still counted as a successful
\* conversion.
C27_DryRunWritesNothing ==
    /\ [][dry_run' => output_dir' = output_dir]_vars
    /\ []((dry_run /\ bpc \in {"done", "packed"})
            => report.successful_conversions = Len(Parseable))

\* a dry run with --clean has converted a file and reached the icon pack
\* over an output directory that an earlier run filled
C27_Witness ==
    /\ bpc = "packed"
    /\ dry_run
    /\ clean_output
    /\ report.successful_conversions > 0
    /\ output_dir # <<>>

\* C30: two distinct input files of one convert_all run never map to the
\* same output path: after a run that writes, the files written are as many
\* as successful_conversions, and every converted input file is the source
\* of the file at its output path.
C30_NoSilentOverwrite ==
    (bpc = "done" /\ ~dry_run) =>
        /\ DistinctOutputs
        /\ Cardinality({ report.output_files[k] : k \in 1..Len(report.output_files) })
              = report.successful_conversions
        /\ \A k \in 1..Len(Parseable) :
              \E f \in 1..Len(output_dir) :
                  /\ output_dir[f].path = GetOutputPath(Parseable[k].path)
                  /\ output_dir[f].source = Parseable[k].path

------------------------------------------------------------------------------
(* Two conversions through one parser *)

\* C26: when two files are converted through the same SVGParser with their
\* steps interleaved in any order, each file's resolved styles and generated
\* text equal what converting that file alone produces.
C26_NoSharedState ==
    \A t \in Conversions :
        /\ tpc[t] \in {"paths", "parsed", "generated"}
              => parsed_data[t].paths = ExtractPaths(tree_root[t])
        /\ tpc[t] \in {"parsed", "generated"}
              => parsed_data[t] = ParseSvgFile(tree_root[t])
        /\ tpc[t] = "generated"
              => generated_code[t]
                   = GenerateAllPathsWithSplitting(ParseSvgFile(tree_root[t]))

------------------------------------------------------------------------------
(* The generated accessor *)

\* C25: over any sequence of reads of a generated accessor, the vector
\* graphic is built exactly once, on the first read, and every read returns
\* that same built value; it is never rebuilt.
C25_BuiltOnceMemoized ==
    \A unit \in Accessors :
        /\ builds[unit] <= 1
        /\ (returned[unit] = <<>> /\ reader.unit # unit) => builds[unit] = 0
        /\ returned[unit] # <<>> => builds[unit] = 1
        /\ \A k \in 1..Len(returned[unit]) : returned[unit][k] = 1

\* one accessor has been read three times and another one twice
C25_Witness ==
    \E unit, other \in Accessors :
        /\ unit # other
        /\ Len(returned[unit]) = 3
        /\ Len(returned[other]) = 2
        /\ builds[unit] = 1
        /\ builds[other] = 1

====
